---- MODULE Spec2Model ----
(***************************************************************************)
(* Model of the retrieval-augmented query pipeline for Swedish statutory   *)
(* text: the Structural Tagger (etl/preprocess_text.py), the query         *)
(* pipeline (app/vector_store.py) and the chat entry point                 *)
(* (app/chatbot.py).                                                       *)
(*                                                                         *)
(* Texts are sequences of characters (one-character strings), and the      *)
(* regular expressions of the code are operators over such sequences, so   *)
(* that a substitution is computed on the characters as re.sub computes it.*)
(***************************************************************************)
EXTENDS Integers, Sequences, FiniteSets, TLC

(***************************************************************************)
(* Characters and character classes (Python re, str patterns).             *)
(***************************************************************************)
Digits == {"0", "1", "2", "3", "4", "5", "6", "7", "8", "9"}

LowerLetters ==
    {"a", "b", "c", "d", "e", "f", "g", "h", "i", "j", "k", "l", "m", "n", "o", "p",
     "q", "r", "s", "t", "u", "v", "w", "x", "y", "z", "å", "ä", "ö"}

UpperLetters ==
    {"A", "B", "C", "D", "E", "F", "G", "H", "I", "J", "K", "L", "M", "N", "O", "P",
     "Q", "R", "S", "T", "U", "V", "W", "X", "Y", "Z", "Å", "Ä", "Ö"}

\* str.lower() / re.IGNORECASE folding of one character.
LowerMap ==
    [c \in UpperLetters |->
        CASE c = "A" -> "a" [] c = "B" -> "b" [] c = "C" -> "c" [] c = "D" -> "d"
          [] c = "E" -> "e" [] c = "F" -> "f" [] c = "G" -> "g" [] c = "H" -> "h"
          [] c = "I" -> "i" [] c = "J" -> "j" [] c = "K" -> "k" [] c = "L" -> "l"
          [] c = "M" -> "m" [] c = "N" -> "n" [] c = "O" -> "o" [] c = "P" -> "p"
          [] c = "Q" -> "q" [] c = "R" -> "r" [] c = "S" -> "s" [] c = "T" -> "t"
          [] c = "U" -> "u" [] c = "V" -> "v" [] c = "W" -> "w" [] c = "X" -> "x"
          [] c = "Y" -> "y" [] c = "Z" -> "z" [] c = "Å" -> "å" [] c = "Ä" -> "ä"
          [] c = "Ö" -> "ö"]

Lower(c) == IF c \in UpperLetters THEN LowerMap[c] ELSE c

UpperMap == [c \in LowerLetters |-> CHOOSE u \in UpperLetters : LowerMap[u] = c]

Upper(c) == IF c \in LowerLetters THEN UpperMap[c] ELSE c

LowerText(t) == [i \in 1..Len(t) |-> Lower(t[i])]

UpperText(t) == [i \in 1..Len(t) |-> Upper(t[i])]

\* \d, \s and \w of the re module.
IsDigit(c) == c \in Digits

IsSpace(c) == c \in {" ", "\n", "\t"}

IsWordChar(c) == c \in Digits \cup LowerLetters \cup UpperLetters \cup {"_"}

Min(S) == CHOOSE x \in S : \A y \in S : x <= y

\* Index of the first character at or after i that is no digit (Len(t) + 1 at the end):
\* where a greedy \d* that starts at i stops.
SkipDigits(t, i) ==
    CHOOSE j \in i..(Len(t) + 1) :
        /\ (j = Len(t) + 1 \/ ~IsDigit(t[j]))
        /\ \A k \in i..(j - 1) : IsDigit(t[k])

\* Where a greedy \s* that starts at i stops.
SkipSpaces(t, i) ==
    CHOOSE j \in i..(Len(t) + 1) :
        /\ (j = Len(t) + 1 \/ ~IsSpace(t[j]))
        /\ \A k \in i..(j - 1) : IsSpace(t[k])

\* The literal lit stands in t at index i.
HasLit(t, i, lit) ==
    /\ i >= 1
    /\ i + Len(lit) - 1 <= Len(t)
    /\ \A k \in 1..Len(lit) : t[i + k - 1] = lit[k]

\* lit in t (Python's substring test).
Contains(t, lit) == \E i \in 1..(Len(t) - Len(lit) + 1) : HasLit(t, i, lit)

(***************************************************************************)
(* Matching.  A pattern is given by its ends: ends[i] is the index after   *)
(* the match that starts at i, or 0 when the pattern does not match at i.  *)
(* A match is [s |-> first index, e |-> index after the last].             *)
(***************************************************************************)
RECURSIVE PickMatches(_, _, _)
PickMatches(ends, cands, pos) ==
    LET rest == {i \in cands : i >= pos}
    IN  IF rest = {}
        THEN << >>
        ELSE LET s == Min(rest)
             IN  <<[s |-> s, e |-> ends[s]]>> \o PickMatches(ends, rest \ {s}, ends[s])

\* re.finditer: the non-overlapping matches, leftmost first.
FindIter(ends) == PickMatches(ends, {i \in DOMAIN ends : ends[i] # 0}, 1)

RECURSIVE SpliceFrom(_, _, _, _)
SpliceFrom(t, ms, reps, k) ==
    LET upto == IF k < Len(ms) THEN ms[k + 1].s - 1 ELSE Len(t)
    IN  reps[k] \o SubSeq(t, ms[k].e, upto)
            \o (IF k < Len(ms) THEN SpliceFrom(t, ms, reps, k + 1) ELSE << >>)

\* re.sub: t with match ms[k] replaced by reps[k], the text between kept.
Splice(t, ms, reps) ==
    IF Len(ms) = 0 THEN t ELSE SubSeq(t, 1, ms[1].s - 1) \o SpliceFrom(t, ms, reps, 1)

(***************************************************************************)
(* The patterns of the Structural Tagger.                                  *)
(***************************************************************************)
KapLit == <<"k", "a", "p", ".">>

ParLit == <<"§">>

\* (\d+)\s*kap\.
ChapterEnd(t, i) ==
    IF ~IsDigit(t[i])
    THEN 0
    ELSE LET k == SkipSpaces(t, SkipDigits(t, i))
         IN  IF HasLit(t, k, KapLit) THEN k + Len(KapLit) ELSE 0

ChapterEnds(t) == [i \in 1..Len(t) |-> ChapterEnd(t, i)]

\* (\d+)\s*§
ParagraphEnd(t, i) ==
    IF ~IsDigit(t[i])
    THEN 0
    ELSE LET k == SkipSpaces(t, SkipDigits(t, i))
         IN  IF HasLit(t, k, ParLit) THEN k + Len(ParLit) ELSE 0

ParagraphEnds(t) == [i \in 1..Len(t) |-> ParagraphEnd(t, i)]

\* Index of the next § at or after i (Len(t) + 1 when there is none): where [^§]* stops.
SkipToParagraphSign(t, i) ==
    CHOOSE j \in i..(Len(t) + 1) :
        /\ (j = Len(t) + 1 \/ t[j] = "§")
        /\ \A k \in i..(j - 1) : t[k] # "§"

\* (\d+)\s*kap\.\s*([^§]*)
ChapterBlockEnd(t, i) ==
    IF ChapterEnd(t, i) = 0 THEN 0 ELSE SkipToParagraphSign(t, ChapterEnd(t, i))

ChapterBlockEnds(t) == [i \in 1..Len(t) |-> ChapterBlockEnd(t, i)]

\* group(1) of a match of one of the patterns above: the digits it starts with.
Group1(t, m) == SubSeq(t, m.s, SkipDigits(t, m.s) - 1)

\* group(2) of a chapter block: the text after the whitespace that follows "kap.".
ChapterBlockGroup2(t, m) == SubSeq(t, SkipSpaces(t, ChapterEnd(t, m.s)), m.e - 1)

(***************************************************************************)
(* Step 1: mark each chapter with a distinctive marker and repeat the      *)
(* chapter number.                                                         *)
(***************************************************************************)
\* r"\n\n--- KAPITEL \1 ---\n\1 kap. \2"
ChapterReplacement(t, m) ==
    <<"\n", "\n", "-", "-", "-", " ", "K", "A", "P", "I", "T", "E", "L", " ">> \o Group1(t,
            m) \o <<" ", "-", "-", "-", "\n">> \o Group1(t, m) \o <<" ", "k", "a", "p", ".",
            " ">>
        \o ChapterBlockGroup2(t, m)

MarkChapters(t) ==
    LET ms == FindIter(ChapterBlockEnds(t))
    IN  Splice(t, ms, [k \in 1..Len(ms) |-> ChapterReplacement(t, ms[k])])

(***************************************************************************)
(* Step 2: replace_paragraph, the paragraph marker with the most recent    *)
(* chapter reference before it.                                            *)
(***************************************************************************)
NoChapter == << >>

\* chapter_matches = list(re.finditer(r"(\d+)\s*kap\.", text_before))
ChapterMatches(text_before) == FindIter(ChapterEnds(text_before))

FirstChapter(text_before) ==
    LET cms == ChapterMatches(text_before)
    IN  IF Len(cms) = 0 THEN NoChapter ELSE Group1(text_before, cms[1])

\* chapter_matches[-1].group(1), NoChapter when chapter_matches is empty.
LatestChapter(text_before) ==
    LET cms == ChapterMatches(text_before)
    IN  IF Len(cms) = 0 THEN NoChapter ELSE Group1(text_before, cms[Len(cms)])

ParSep == <<" ", "§">>

InlineOpen == <<" ", "(", "i", " ">>

InlineClose == <<" ", "k", "a", "p", ".", ")", " ">>

\* The chapter replace_paragraph finds for the match m of t.
ParagraphChapter(t, m) == LatestChapter(SubSeq(t, 1, m.s - 1))

\* f"\n\n{para_num} § (i {latest_chapter} kap.) {para_num} §", or
\* f"\n\n{para_num} § {para_num} §" when no chapter was found.
replace_paragraph(t, m) ==
    LET para_num == Group1(t, m)
        latest_chapter == ParagraphChapter(t, m)
    IN  IF latest_chapter # NoChapter
        THEN <<"\n", "\n">> \o para_num \o ParSep \o InlineOpen \o latest_chapter
                 \o InlineClose \o para_num \o ParSep
        ELSE <<"\n", "\n">> \o para_num \o ParSep \o <<" ">> \o para_num \o ParSep

EnhanceParagraphs(t) ==
    LET ms == FindIter(ParagraphEnds(t))
    IN  Splice(t, ms, [k \in 1..Len(ms) |-> replace_paragraph(t, ms[k])])

\* What step 2 wrote for each paragraph marker, in order: the paragraph number and
\* the chapter number of its inline tag (NoChapter when it has none).
ParagraphTags(t) ==
    LET ms == FindIter(ParagraphEnds(t))
    IN  [k \in 1..Len(ms) |->
            [para |-> Group1(t, ms[k]), chapter |-> ParagraphChapter(t, ms[k])]]

(***************************************************************************)
(* Step 3: extra emphasis on the most important sections.                  *)
(***************************************************************************)
\* (c\s*kap\.\s*1\s*§) for the chapter digit c: r"(1\s*kap\.\s*1\s*§)" and so on.
ImportantEnd(c, t, i) ==
    IF t[i] # c
    THEN 0
    ELSE LET k == SkipSpaces(t, i + 1)
         IN  IF ~HasLit(t, k, KapLit)
             THEN 0
             ELSE LET p == SkipSpaces(t, k + Len(KapLit))
                  IN  IF ~HasLit(t, p, <<"1">>)
                      THEN 0
                      ELSE LET q == SkipSpaces(t, p + 1)
                           IN  IF HasLit(t, q, ParLit) THEN q + Len(ParLit) ELSE 0

ImportantEnds(c, t) == [i \in 1..Len(t) |-> ImportantEnd(c, t, i)]

\* re.sub(r"(c\s*kap\.\s*1\s*§)", r"\n\n--- VIKTIG PARAGRAF ---\n\1 - (Kapitel c, ...\n", t)
MarkImportant(c, close, t) ==
    LET ms == FindIter(ImportantEnds(c, t))
    IN  Splice(t, ms,
               [k \in 1..Len(ms) |->
                       <<"\n","\n","-","-","-"," ","V","I","K","T","I","G"," ","P","A","R","A","G","R","A","F"," ", "-","-","-","\n">> \o SubSeq(t, ms[k].s, ms[k].e - 1) \o close])

MarkImportantSections(t) ==
    MarkImportant("3",
            <<" ","-"," ","(","K","a","p","i","t","e","l"," ","3",","," ","P","a","r","a","g","r","a", "f"," ","1",")"," ","-"," ","E","N","S","A","M","R","Ä","T","T","E","N","S"," ","O","M", "F","A","T","T","N","I","N","G","\n">>,
        MarkImportant("2",
                <<" ","-"," ","(","K","a","p","i","t","e","l"," ","2",","," ","P","a","r","a","g","r","a", "f"," ","1",")"," ","-"," ","P","A","T","E","N","T","E","R","B","A","R","A"," ","U","P", "P","F","I","N","N","I","N","G","A","R","\n">>, MarkImportant("1", <<" ","-"," ","(","K","a","p","i","t","e","l"," ","1",","," ","P","a","r","a","g","r","a", "f"," ","1",")"," ","-"," ","D","E","F","I","N","I","T","I","O","N"," ","A","V"," ","P", "A","T","E","N","T"," ","O","C","H"," ","E","N","S","A","M","R","Ä","T","T","\n">>, t)))

(***************************************************************************)
(* Steps 4 and 6: a marker line before each header phrase.                 *)
(***************************************************************************)
HeaderPhrases ==
    <<<<"D","e","t"," ","p","a","t","e","n","t","e","r","b","a","r","a"," ","o","m","r","å","d","e",
        "t">>,
      <<"P","a","t","e","n","t">>,
      <<"E","u","r","o","p","e","i","s","k","t"," ","p","a","t","e","n","t">>,
      <<"P","a","t","e","n","t","e","r","b","a","r","a"," ","u","p","p","f","i","n","n","i","n","g",
        "a","r">>,
      <<"M","ä","n","n","i","s","k","o","k","r","o","p","p","e","n">>,
      <<"V","ä","x","t","s","o","r","t","e","r"," ","o","c","h"," ","d","j","u","r","r","a","s","e",
        "r">>,
      <<"M","ö","n","s","t","e","r","s","k","y","d","d">>,
      <<"E","n","s","a","m","r","ä","t","t"," ","t","i","l","l"," ","m","ö","n","s","t","e","r">>,
      <<"S","k","y","d","d","s","t","i","d","e","n">>>>

SectionPhrases ==
    <<<<"G","r","u","n","d","l","ä","g","g","a","n","d","e"," ","b","e","s","t","ä","m","m","e","l",
        "s","e","r">>,
      <<"L","a","g","e","n","s"," ","i","n","n","e","h","å","l","l">>,
      <<"L","a","g","e","n","s"," ","t","i","l","l","ä","m","p","n","i","n","g","s","o","m","r","å",
        "d","e">>,
      <<"S","v","e","n","s","k","t"," ","p","a","t","e","n","t">>,
      <<"R","e","g","i","s","t","r","e","r","i","n","g"," ","a","v"," ","m","ö","n","s","t","e","r">>,
      <<"S","k","y","d","d","s","f","ö","r","u","t","s","ä","t","t","n","i","n","g","a","r">>>>

\* (a|b|...): the first alternative, in the order written, that stands at i.
AlternativesEnd(alts, t, i) ==
    LET hit == {k \in 1..Len(alts) : HasLit(t, i, alts[k])}
    IN  IF hit = {} THEN 0 ELSE i + Len(alts[Min(hit)])

AlternativesEnds(alts, t) == [i \in 1..Len(t) |-> AlternativesEnd(alts, t, i)]

\* re.sub(r"(a|b|...)", open + r"\1", t)
MarkPhrases(alts, open, t) ==
    LET ms == FindIter(AlternativesEnds(alts, t))
    IN  Splice(t, ms, [k \in 1..Len(ms) |-> open \o SubSeq(t, ms[k].s, ms[k].e - 1)])

FormatHeaders(t) == MarkPhrases(HeaderPhrases,
        <<"\n","\n","-","-","-"," ","A","V","S","N","I","T","T"," ","-","-","-","\n">>, t)

AddSectionMarkers(t) == MarkPhrases(SectionPhrases,
        <<"\n","\n","-","-","-"," ","S","E","K","T","I","O","N"," ","-","-","-","\n">>, t)

(***************************************************************************)
(* Step 5: repeat the legal terms.                                         *)
(***************************************************************************)
legal_terms ==
    <<<<"e","n","s","a","m","r","ä","t","t">>,
      <<"u","p","p","f","i","n","n","i","n","g">>,
      <<"p","a","t","e","n","t","h","a","v","a","r","e","n">>,
      <<"p","a","t","e","n","t","s","k","y","d","d">>,
      <<"p","a","t","e","n","t","a","n","s","ö","k","a","n">>,
      <<"m","ö","n","s","t","e","r","s","k","y","d","d">>,
      <<"m","ö","n","s","t","e","r","h","a","v","a","r","e","n">>,
      <<"d","e","s","i","g","n","s","k","y","d","d">>,
      <<"b","r","u","k","s","m","o","d","e","l","l">>>>

\* rf"\b({term})\b" with re.IGNORECASE
TermEnd(term, t, i) ==
    IF /\ i + Len(term) - 1 <= Len(t)
       /\ \A k \in 1..Len(term) : Lower(t[i + k - 1]) = term[k]
       /\ (i = 1 \/ ~IsWordChar(t[i - 1]))
       /\ (i + Len(term) > Len(t) \/ ~IsWordChar(t[i + Len(term)]))
    THEN i + Len(term)
    ELSE 0

TermEnds(term, t) == [i \in 1..Len(t) |-> TermEnd(term, t, i)]

\* re.sub(rf"\b({term})\b", r"\n\n\1 \1", t, flags=re.IGNORECASE)
RepeatTerm(term, t) ==
    LET ms == FindIter(TermEnds(term, t))
    IN  Splice(t, ms,
               [k \in 1..Len(ms) |->
                   <<"\n", "\n">> \o SubSeq(t, ms[k].s, ms[k].e - 1) \o <<" ">>
                       \o SubSeq(t, ms[k].s, ms[k].e - 1)])

RECURSIVE RepeatTermsFrom(_, _)
RepeatTermsFrom(k, t) ==
    IF k > Len(legal_terms) \/ Len(t) = 0
    THEN t
    ELSE RepeatTermsFrom(k + 1, RepeatTerm(legal_terms[k], t))

\* for term in legal_terms: ...
RepeatTerms(t) == RepeatTermsFrom(1, t)

(***************************************************************************)
(* Step 7: explicit tags for the chapter-paragraph combinations.           *)
(* A state of the loops is [text |-> enhanced_content, tags |-> the tags   *)
(* inserted so far, as [chapter, para]].                                   *)
(***************************************************************************)
\* chap_match.end() + 500: how far ahead of a chapter reference step 7 looks.
LookAhead == 500

\* ... + 10: how far after the paragraph reference the tag is inserted.
TagOffset == 10

\* f"\n[KAPITEL-PARAGRAF-TAGG: Kapitel {chap_num}, Paragraf {para_num}]\n"
ExplicitTag(chap_num, para_num) ==
        <<"\n","[","K","A","P","I","T","E","L","-","P","A","R","A","G","R","A","F","-","T","A","G", "G",":"," ","K","a","p","i","t","e","l"," ">> \o chap_num \o <<","," ","P","a","r","a","g","r","a","f"," ">> \o para_num \o <<"]","\n">>

\* One turn of the inner loop: the tag for the paragraph match pm of text_after, which
\* was cut from the text after the chapter match that ends at chap_end (Python's
\* 0-based chap_match.end()); pm.e - 1 is Python's para_match.end().
InsertTag(st, chap_num, chap_end, text_after, pm) ==
    LET insert_pos == chap_end + (pm.e - 1) + TagOffset
    IN  IF insert_pos < Len(st.text)
        THEN [text |-> SubSeq(st.text, 1, insert_pos)
                          \o ExplicitTag(chap_num, Group1(text_after, pm))
                          \o SubSeq(st.text, insert_pos + 1, Len(st.text)),
              tags |-> Append(st.tags,
                              [chapter |-> chap_num, para |-> Group1(text_after, pm)])]
        ELSE st

RECURSIVE InsertTagsFrom(_, _, _, _, _, _)
InsertTagsFrom(st, chap_num, chap_end, text_after, pms, k) ==
    IF k > Len(pms) \/ Len(st.text) = 0
    THEN st
    ELSE InsertTagsFrom(InsertTag(st, chap_num, chap_end, text_after, pms[k]),
                        chap_num, chap_end, text_after, pms, k + 1)

\* The paragraph references step 7 tags with the chapter of one chapter match: all
\* those of text_after.
TaggedParagraphs(text_after) == FindIter(ParagraphEnds(text_after))

\* One turn of the outer loop, for the chapter match cm of the text e0 the loop
\* started with; text_after is cut from the text as it is now.
TagChapter(st, e0, cm) ==
    LET chap_end == cm.e - 1
        text_after ==
            SubSeq(st.text, chap_end + 1,
                   IF chap_end + LookAhead < Len(st.text)
                   THEN chap_end + LookAhead
                   ELSE Len(st.text))
    IN  InsertTagsFrom(st, Group1(e0, cm), chap_end, text_after,
                       TaggedParagraphs(text_after), 1)

RECURSIVE TagChaptersFrom(_, _, _, _)
TagChaptersFrom(st, e0, cms, k) ==
    IF k > Len(cms) \/ Len(st.text) = 0
    THEN st
    ELSE TagChaptersFrom(TagChapter(st, e0, cms[k]), e0, cms, k + 1)

\* for chap_match in re.finditer(r"(\d+)\s*kap\.", enhanced_content): ...
AddExplicitTags(t) ==
    TagChaptersFrom([text |-> t, tags |-> << >>], t, FindIter(ChapterEnds(t)), 1)

(***************************************************************************)
(* Step 8: the first-paragraph boilerplate of the recognized law types.    *)
(***************************************************************************)
first_para_patterns ==
    <<[pattern |->
          <<"D","e","n"," ","s","o","m"," ","h","a","r"," ","g","j","o","r","t"," ","e","n"," ","u","p",
            "p","f","i","n","n","i","n","g">>,
       prefix |->
          <<"1"," ","k","a","p","."," ","1"," ","§"," ","P","A","T","E","N","T",":"," ">>,
       law_type |->
          <<"p","a","t","e","n","t">>],
      [pattern |->
          <<"D","e","n"," ","s","o","m"," ","h","a","r"," ","s","k","a","p","a","t"," ","e","t","t"," ",
            "m","ö","n","s","t","e","r">>,
       prefix |->
          <<"1"," ","k","a","p","."," ","1"," ","§"," ","M","Ö","N","S","T","E","R","S","K","Y","D","D",
            ":"," ">>,
       law_type |->
          <<"m","ö","n","s","t","e","r","s","k","y","d","d">>],
      [pattern |->
          <<"D","e","n"," ","s","o","m"," ","f","o","r","m","g","i","v","i","t"," ","e","n"," ","p","r",
            "o","d","u","k","t">>,
       prefix |->
          <<"1"," ","k","a","p","."," ","1"," ","§"," ","D","E","S","I","G","N","S","K","Y","D","D",":",
            " ">>,
       law_type |->
          <<"d","e","s","i","g","n","s","k","y","d","d">>]>>

DefinitionBody ==
    <<"(","K","a","p","i","t","e","l"," ","1",","," ","P","a","r","a","g","r","a","f"," ","1",
      ")"," ","D","e","n"," ","s","o","m"," ","h","a","r"," ","s","k","a","p","a","t"," ","e",
      "t","t"," ","m","ö","n","s","t","e","r",","," ","e","l","l","e","r"," ","d","e","n"," ",
      "t","i","l","l"," ","v","i","l","k","e","n"," ","m","ö","n","s","t","r","e","t"," ","h",
      "a","r"," ","ö","v","e","r","g","å","t","t",","," ","k","a","n"," ","g","e","n","o","m",
      " ","r","e","g","i","s","t","r","e","r","i","n","g"," ","f","å"," ","e","n","s","a","m",
      "r","ä","t","t"," ","t","i","l","l"," ","m","ö","n","s","t","r","e","t"," ","e","n","l",
      "i","g","t"," ","d","e","n","n","a"," ","l","a","g"," ","(","m","ö","n","s","t","e","r",
      "r","ä","t","t",")",".","\n","\n","M","ö","n","s","t","e","r","r","ä","t","t","e","n"," ",
      "g","e","r"," ","i","n","n","e","h","a","v","a","r","e","n"," ","e","n","s","a","m","r",
      "ä","t","t"," ","a","t","t"," ","y","r","k","e","s","m","ä","s","s","i","g","t"," ","u",
      "t","n","y","t","t","j","a"," ","m","ö","n","s","t","r","e","t"," ","e","n","l","i","g",
      "t"," ","d","e","n","n","a"," ","l","a","g",".","\n","-","-","-"," ">>

\* first_para = f"""\n--- {law_type.upper()} DEFINITION ---\n{prefix}(Kapitel 1, ...
\* --- {law_type.upper()} DEFINITION ---\n\n"""
first_para(fp) ==
    <<"\n","-","-","-"," ">> \o UpperText(fp.law_type) \o
            <<" ","D","E","F","I","N","I","T","I","O","N"," ","-","-","-","\n">> \o
            fp.prefix
        \o DefinitionBody \o UpperText(fp.law_type) \o
                <<" ","D","E","F","I","N","I","T","I","O","N"," ","-","-","-","\n","\n">>

\* if pattern in enhanced_content: ... if not first_para in enhanced_content:
PrependsBoilerplate(fp, t) == Contains(t, fp.pattern) /\ ~Contains(t, first_para(fp))

PrependFirstPara(fp, t) == IF PrependsBoilerplate(fp, t) THEN first_para(fp) \o t ELSE t

RECURSIVE PrependFrom(_, _)
PrependFrom(k, t) ==
    IF k > Len(first_para_patterns) \/ Len(t) = 0
    THEN t
    ELSE PrependFrom(k + 1, PrependFirstPara(first_para_patterns[k], t))

\* for pattern, prefix, law_type in first_para_patterns: ...
MarkFirstParagraphs(t) == PrependFrom(1, t)

\* The law types whose boilerplate step 8 prepends to t, in the order of the loop.
RECURSIVE PrependedFrom(_, _)
PrependedFrom(k, t) ==
    IF k > Len(first_para_patterns)
    THEN << >>
    ELSE (IF PrependsBoilerplate(first_para_patterns[k], t)
          THEN <<first_para_patterns[k].law_type>>
          ELSE << >>)
             \o PrependedFrom(k + 1, PrependFirstPara(first_para_patterns[k], t))

(***************************************************************************)
(* The query pipeline: pure parts of VectorStore.query.                    *)
(***************************************************************************)
\* lit (lower case) stands in t at index i, case ignored (re.IGNORECASE).
HasLitCI(t, i, lit) ==
    /\ i >= 1
    /\ i + Len(lit) - 1 <= Len(t)
    /\ \A k \in 1..Len(lit) : Lower(t[i + k - 1]) = lit[k]

\* The digits that start at i (empty when t[i] is no digit).
DigitsAt(t, i) == SubSeq(t, i, SkipDigits(t, i) - 1)

KapWord ==
    <<"k","a","p">>

KapitelWord ==
    <<"k","a","p","i","t","e","l">>

ForstWord ==
    <<"f","ö","r","s","t">>

\* (kap\.?|kapitel) at k: the index after it, 0 when neither alternative stands at k.
\* The first alternative is tried first, and nothing after it in the pattern can fail.
ChapterWordEnd(t, k) ==
    IF HasLitCI(t, k, KapWord)
    THEN (IF HasLit(t, k + Len(KapWord), <<".">>)
          THEN k + Len(KapWord) + 1
          ELSE k + Len(KapWord))
    ELSE IF HasLitCI(t, k, KapitelWord) THEN k + Len(KapitelWord) ELSE 0

\* r"(\d+)\s*(kap\.?|kapitel)\.?\s*(\d+)?\s*(?:§|paragraf)?" matches at i.
SectionAt(t, i) ==
    /\ IsDigit(t[i])
    /\ ChapterWordEnd(t, SkipSpaces(t, SkipDigits(t, i))) # 0

\* group(3) of that match at i: the digits after the chapter word, an optional second
\* full stop and white space; empty when the group did not take part.
SectionGroup3(t, i) ==
    LET w == ChapterWordEnd(t, SkipSpaces(t, SkipDigits(t, i)))
        p == SkipSpaces(t, IF HasLit(t, w, <<".">>) THEN w + 1 ELSE w)
    IN  DigitsAt(t, p)

\* r"(\d+)\s*(?:§|paragraf)" matches at i.
ParagrafAt(t, i) ==
    /\ IsDigit(t[i])
    /\ LET k == SkipSpaces(t, SkipDigits(t, i))
       IN  HasLit(t, k, ParLit) \/ HasLitCI(t, k, <<"p","a","r","a","g","r","a","f">>)

\* re.search(r"först(?:a)?(?:\s*kapitel|\s*kap\.?)", query_text, re.IGNORECASE)
HasFirstChapterWord(t) ==
    \E i \in 1..Len(t) :
        /\ HasLitCI(t, i, ForstWord)
        /\ LET a == IF HasLitCI(t, i + Len(ForstWord), <<"a">>)
                    THEN i + Len(ForstWord) + 1
                    ELSE i + Len(ForstWord)
               k == SkipSpaces(t, a)
           IN  HasLitCI(t, k, KapitelWord) \/ HasLitCI(t, k, KapWord)

KapDot ==
    <<" ","k","a","p","."," ">>

ParSpace ==
    <<" ","§"," ">>

\* A rewrite that prepends the first chapter to every paragraph-only question.
EnhanceQueryAnyParagraph(query_text) ==
    LET section == {i \in 1..Len(query_text) : SectionAt(query_text, i)}
        paragraf == {i \in 1..Len(query_text) : ParagrafAt(query_text, i)}
    IN  IF section # {}
        THEN LET chap_num == DigitsAt(query_text, Min(section))
                 para_num == SectionGroup3(query_text, Min(section))
             IN  IF para_num # << >>
                 THEN chap_num \o KapDot \o para_num \o ParSpace \o query_text
                 ELSE chap_num \o KapDot \o query_text
        ELSE IF paragraf # {}
             THEN <<"1">> \o KapDot \o DigitsAt(query_text, Min(paragraf)) \o ParSpace
                      \o query_text
             ELSE query_text

\* The query text submitted to the index for the question query_text.
EnhanceQuery(query_text) ==
    LET section == {i \in 1..Len(query_text) : SectionAt(query_text, i)}
        paragraf == {i \in 1..Len(query_text) : ParagrafAt(query_text, i)}
    IN  IF section # {}
        THEN LET chap_num == DigitsAt(query_text, Min(section))
                 para_num == SectionGroup3(query_text, Min(section))
             IN  IF para_num # << >>
                 THEN chap_num \o KapDot \o para_num \o ParSpace \o query_text
                 ELSE chap_num \o KapDot \o query_text
        ELSE IF paragraf # {} /\ HasFirstChapterWord(query_text)
             THEN <<"1">> \o KapDot \o DigitsAt(query_text, Min(paragraf)) \o ParSpace
                      \o query_text
             ELSE query_text

KeyConcepts ==
    <<<<"e","n","s","a","m","r","ä","t","t">>,
      <<"p","a","t","e","n","t">>,
      <<"u","p","p","f","i","n","n","i","n","g">>,
      <<"p","a","t","e","n","t","e","r","b","a","r">>,
      <<"m","ä","n","n","i","s","k","o","k","r","o","p","p">>,
      <<"l","i","v","s","t","i","d">>,
      <<"g","i","l","t","i","g","h","e","t","s","t","i","d">>,
      <<"s","k","y","d","d","s","t","i","d">>,
      <<"å","r">>,
      <<"u","p","p","r","ä","t","t","h","å","l","l","a","s">>>>

\* key_concepts: the concepts found in the query, logged only.
FoundKeyConcepts(query_text) ==
    SelectSeq(KeyConcepts, LAMBDA c : Contains(LowerText(query_text), LowerText(c)))

LifetimeTerms ==
    <<<<"l","i","v","s","t","i","d">>,
      <<"g","i","l","t","i","g","h","e","t","s","t","i","d">>,
      <<"s","k","y","d","d","s","t","i","d">>,
      <<"å","r">>>>

\* any(term in query_text.lower() for term in ["livstid", "giltighetstid", ...])
IsLifetimeQuery(query_text) ==
    \E k \in 1..Len(LifetimeTerms) : Contains(LowerText(query_text), LifetimeTerms[k])

\* similarity_top_k
TopK == 12

NoDocumentsText ==
    <<"N","o"," ","r","e","l","e","v","a","n","t"," ","d","o","c","u","m","e","n","t","s"," ",
      "f","o","u","n","d">>

\* A re-ranking that puts each lifetime hit in front of those found before it.
ContextOrderLatestFirst(query_text, hits) ==
    IF hits # << >> /\ IsLifetimeQuery(query_text)
    THEN LET flagged == SelectSeq([i \in 1..Len(hits) |-> i],
                                  LAMBDA i : hits[i].metadata.lifetime_info)
         IN  [k \in 1..Len(flagged) |-> flagged[Len(flagged) + 1 - k]]
                 \o SelectSeq([i \in 1..Len(hits) |-> i],
                              LAMBDA i : ~hits[i].metadata.lifetime_info)
    ELSE [i \in 1..Len(hits) |-> i]

\* The hits in the order of the context: for a lifetime query those with lifetime_info
\* first, then the others (indices into the hits as retrieved).
ContextOrder(query_text, hits) ==
    IF hits # << >> /\ IsLifetimeQuery(query_text)
    THEN SelectSeq([i \in 1..Len(hits) |-> i], LAMBDA i : hits[i].metadata.lifetime_info)
             \o SelectSeq([i \in 1..Len(hits) |-> i],
                          LAMBDA i : ~hits[i].metadata.lifetime_info)
    ELSE [i \in 1..Len(hits) |-> i]

\* A context without the sentinel text.
ContextTextsOfHits(query_text, hits) ==
    LET order == ContextOrder(query_text, hits)
    IN  [k \in 1..Len(order) |-> hits[order[k]].text]

\* context_texts
ContextTexts(query_text, hits) ==
    IF hits = << >>
    THEN <<NoDocumentsText>>
    ELSE LET order == ContextOrder(query_text, hits)
         IN  [k \in 1..Len(order) |-> hits[order[k]].text]

(***************************************************************************)
(* Source attribution.                                                     *)
(***************************************************************************)
\* Where [^\n]* that starts at i stops.
SkipToNewline(t, i) ==
    CHOOSE j \in i..(Len(t) + 1) :
        /\ (j = Len(t) + 1 \/ t[j] = "\n")
        /\ \A k \in i..(j - 1) : t[k] # "\n"

\* str.strip()
Strip(s) ==
    LET keep == {i \in 1..Len(s) : ~IsSpace(s[i])}
    IN  IF keep = {}
        THEN << >>
        ELSE SubSeq(s, Min(keep), CHOOSE j \in keep : \A k \in keep : k <= j)

\* In r"...§\s*([^\n]+)", where group 3 starts when the § ends before index a: after
\* the white space, or, when only white space follows, at the last character that is
\* no line break (the \s* gives characters back); 0 when there is none.
FileNameStart(t, a) ==
    LET b == SkipSpaces(t, a)
        back == {j \in a..Len(t) : t[j] # "\n"}
    IN  IF b <= Len(t)
        THEN b
        ELSE IF back = {} THEN 0 ELSE CHOOSE j \in back : \A k \in back : k <= j

\* source_pattern = r"(\d+)\s*kap\.\s*(\d+)\s*§\s*([^\n]+)" at i: the citation, with
\* e the index after the match; e = 0 when the pattern does not match at i.
NoCitation == [e |-> 0, chapter |-> << >>, paragraph |-> << >>, filename |-> << >>]

CitationAt(t, i) ==
    IF ~IsDigit(t[i])
    THEN NoCitation
    ELSE LET k == SkipSpaces(t, SkipDigits(t, i))
             p == SkipSpaces(t, k + Len(KapLit))
             s == SkipSpaces(t, SkipDigits(t, p))
             f == FileNameStart(t, s + Len(ParLit))
         IN  IF /\ HasLit(t, k, KapLit)
                /\ DigitsAt(t, p) # << >>
                /\ HasLit(t, s, ParLit)
                /\ f # 0
             THEN [e |-> SkipToNewline(t, f),
                   chapter |-> DigitsAt(t, i),
                   paragraph |-> DigitsAt(t, p),
                   filename |-> Strip(SubSeq(t, f, SkipToNewline(t, f) - 1))]
             ELSE NoCitation

\* re.finditer(source_pattern, response_text): the citations of the answer, in order.
Citations(response_text) ==
    LET at == [i \in 1..Len(response_text) |-> CitationAt(response_text, i)]
        ms == FindIter([i \in 1..Len(response_text) |-> at[i].e])
    IN  [k \in 1..Len(ms) |-> at[ms[k].s]]

\* re.search(f"{chapter}\\s*kap\\.\\s*{paragraph}\\s*§", node.node.text)
NodeCites(text, chapter, paragraph) ==
    \E i \in 1..Len(text) :
        /\ HasLit(text, i, chapter)
        /\ LET k == SkipSpaces(text, i + Len(chapter))
               p == SkipSpaces(text, k + Len(KapLit))
           IN  /\ HasLit(text, k, KapLit)
               /\ HasLit(text, p, paragraph)
               /\ HasLit(text, SkipSpaces(text, p + Len(paragraph)), ParLit)

\* for node in source_nodes: if re.search(...): ... break
FirstCiting(nodes, c) ==
    LET citing == {n \in 1..Len(nodes) : NodeCites(nodes[n].text, c.chapter, c.paragraph)}
    IN  IF citing = {} THEN 0 ELSE Min(citing)

\* One citation: the first hit that contains it gets the file name of the answer and
\* is added to used_sources (as its index in source_nodes).
AttributeCitation(st, c) ==
    LET n == FirstCiting(st.nodes, c)
    IN  IF n = 0
        THEN st
        ELSE [nodes |-> [st.nodes EXCEPT ![n].metadata.file_name = c.filename],
              used |-> Append(st.used, n)]

RECURSIVE AttributeFrom(_, _, _)
AttributeFrom(st, cs, k) ==
    IF k > Len(cs) \/ Len(st.nodes) = 0
    THEN st
    ELSE AttributeFrom(AttributeCitation(st, cs[k]), cs, k + 1)

\* node.score > 0.5, scores in hundredths
ScoreThreshold == 50

\* The attribution as it would be if the hits above the threshold were added also
\* after citations were attributed.
AttributeAddsThreshold(response_text, source_nodes) ==
    LET st == AttributeFrom([nodes |-> source_nodes, used |-> << >>],
                            Citations(response_text), 1)
    IN  [nodes |-> st.nodes,
         used |-> st.used \o SelectSeq([i \in 1..Len(source_nodes) |-> i],
                                       LAMBDA i : source_nodes[i].score > ScoreThreshold)]

\* used_sources (indices into source_nodes) and the source_nodes with the file
\* names written by the attribution.
Attribute(response_text, source_nodes) ==
    LET st == AttributeFrom([nodes |-> source_nodes, used |-> << >>],
                            Citations(response_text), 1)
    IN  IF st.used = << >> /\ source_nodes # << >>
        THEN [nodes |-> st.nodes,
              used |-> SelectSeq([i \in 1..Len(source_nodes) |-> i],
                                 LAMBDA i : source_nodes[i].score > ScoreThreshold)]
        ELSE st

(***************************************************************************)
(* The response objects of VectorStore.query and their source information. *)
(***************************************************************************)
DigitChars == <<"0", "1", "2", "3", "4", "5", "6", "7", "8", "9">>

\* str(n) for n >= 0
RECURSIVE Decimal(_)
Decimal(n) ==
    IF n < 10 THEN <<DigitChars[n + 1]>> ELSE Decimal(n \div 10) \o <<DigitChars[(n % 10) +
            1]>>

\* A hit that came without a score (NodeWithScore.score is optional).
NoScore == -1

\* f"{node.score:.2f}", the score in hundredths
FormatScore(score) ==
    Decimal(score \div 100) \o <<".">> \o <<DigitChars[((score \div 10) % 10) + 1]>>
        \o <<DigitChars[(score % 10) + 1]>>

\* r"(\d+)\s*kap\.\s*(\d+)\s*§" matches at i
LocationAt(t, i) ==
    /\ IsDigit(t[i])
    /\ LET k == SkipSpaces(t, SkipDigits(t, i))
           p == SkipSpaces(t, k + Len(KapLit))
       IN  /\ HasLit(t, k, KapLit)
           /\ DigitsAt(t, p) # << >>
           /\ HasLit(t, SkipSpaces(t, SkipDigits(t, p)), ParLit)

\* location_info: chapter and paragraph of the first combined marker of the text
LocationInfo(text) ==
    LET at == {i \in 1..Len(text) : LocationAt(text, i)}
    IN  IF at = {}
        THEN << >>
        ELSE LET i == Min(at)
                 p == SkipSpaces(text, SkipSpaces(text, SkipDigits(text, i)) + Len(KapLit))
             IN  <<" ","(","k","a","p","i","t","e","l"," ">> \o DigitsAt(text, i) \o
                     <<","," ","§"," ">> \o DigitsAt(text, p)
                     \o <<")">>

\* the length of an excerpt
ExcerptLen == 150

\* The excerpt as it would be if a text of exactly 150 characters were cut too.
ExcerptCutsAtLimit(text) ==
    IF Len(text) >= ExcerptLen THEN SubSeq(text, 1, ExcerptLen) \o <<".",".",".">> ELSE text

\* text[:150] + "..." if len(text) > 150 else text
Excerpt(text) ==
    IF Len(text) > ExcerptLen THEN SubSeq(text, 1, ExcerptLen) \o <<".",".",".">> ELSE text

NoSourcesText ==
    <<"I","n","g","a"," ","s","p","e","c","i","f","i","k","a"," ","k","ä","l","l","o","r"," ",
      "m","a","t","c","h","a","d","e"," ","d","i","n"," ","f","r","å","g","a",".">>

FallbackDisclaimer ==
    <<"D","i","r","e","k","t"," ","s","v","a","r"," ","f","r","å","n"," ","G","e","m","i","n",
      "i"," ","u","t","a","n"," ","d","o","k","u","m","e","n","t","k","o","n","t","e","x","t",
      " ","p","å"," ","g","r","u","n","d"," ","a","v"," ","i","n","d","e","x","e","r","i","n",
      "g","s","f","e","l","."," ","A","n","v","ä","n","d","e","r"," ","B","G","E"," ","i","n",
      "b","ä","d","d","n","i","n","g","s","m","o","d","e","l","l"," ","(","B","A","A","I","/",
      "b","g","e","-","s","m","a","l","l","-","e","n","-","v","1",".","5",")",".">>

\* The two lines of the i-th used source.
FormatSource(i, node) ==
    <<"K","ä","l","l","a"," ">> \o Decimal(i) \o <<":", " ">> \o node.metadata.file_name
        \o LocationInfo(node.text) \o <<" ","(","r","e","l","e","v","a","n","s",":"," ">> \o
                FormatScore(node.score) \o <<")">>
        \o <<"\n">> \o <<" "," "," "," ","U","t","d","r","a","g",":"," ","\"">> \o
                Excerpt(node.text) \o <<"\"">>

RECURSIVE JoinSources(_, _, _)
JoinSources(nodes, used, i) ==
    IF i > Len(used)
    THEN << >>
    ELSE (IF i = 1 THEN << >> ELSE <<"\n">>) \o FormatSource(i, nodes[used[i]])
             \o JoinSources(nodes, used, i + 1)

\* The values VectorStore.query returns: an EnhancedResponse, a FallbackResponse or a
\* str.  used_sources holds indices into source_nodes: the same objects are in both.
EnhancedResponse(text, source_nodes, used_sources) ==
    [kind |-> "EnhancedResponse", text |-> text, source_nodes |-> source_nodes,
     used_sources |-> used_sources]

FallbackResponse(text) ==
    [kind |-> "FallbackResponse", text |-> text, source_nodes |-> << >>,
     used_sources |-> << >>]

PlainText(text) ==
    [kind |-> "str", text |-> text, source_nodes |-> << >>, used_sources |-> << >>]

NoResult == [kind |-> "none", text |-> << >>, source_nodes |-> << >>, used_sources |-> <<
        >>]

\* FallbackResponse.get_formatted_sources
FallbackSources(r) == FallbackDisclaimer

\* Formatting a source raises when a used source has no score.
FormatRaises(r) ==
    /\ r.kind = "EnhancedResponse"
    /\ \E i \in 1..Len(r.used_sources) : r.source_nodes[r.used_sources[i]].score = NoScore

\* str(rag_context.get_formatted_sources()) if hasattr(rag_context,
\* "get_formatted_sources") else ""
get_formatted_sources(r) ==
    CASE r.kind = "EnhancedResponse" ->
             (IF r.used_sources = << >>
              THEN NoSourcesText
              ELSE JoinSources(r.source_nodes, r.used_sources, 1))
      [] r.kind = "FallbackResponse" -> FallbackSources(r)
      [] OTHER -> << >>

(***************************************************************************)
(* create_index: the metadata flags of a chunk.                            *)
(***************************************************************************)
LifetimeWords ==
    {<<"å","r">>,
     <<"l","i","v","s","t","i","d">>,
     <<"g","i","l","t","i","g","h","e","t","s","t","i","d">>,
     <<"s","k","y","d","d","s","t","i","d">>,
     <<"u","p","p","r","ä","t","t","h","å","l","l","a","s">>}

\* re.search(r"år|livstid|giltighetstid|skyddstid|upprätthållas", node.text, re.IGNORECASE)
lifetime_info(text) == \E w \in LifetimeWords : Contains(LowerText(text), w)

PatentWords ==
    {<<"P","a","t","e","n","t">>,
     <<"p","a","t","e","n","t">>,
     <<"u","p","p","f","i","n","n">>}

\* re.search(r"Patent|patent|uppfinn", node.text)
patent_info(text) == \E w \in PatentWords : Contains(text, w)

\* re.search(r"\d+\s*§", node.text)
has_section(text) ==
    \E i \in 1..Len(text) :
        IsDigit(text[i]) /\ HasLit(text, SkipSpaces(text, SkipDigits(text, i)), ParLit)

ImportantWords ==
    {<<"e","n","s","a","m","r","ä","t","t">>,
     <<"p","a","t","e","n","t","e","r","b","a","r","a">>}

\* N\s*kap\.\s*M\s*§ with the literal digits N and M, case ignored
HasSection(text, chapter, paragraph) ==
    \E i \in 1..Len(text) :
        /\ HasLit(text, i, chapter)
        /\ LET k == SkipSpaces(text, i + Len(chapter))
               p == SkipSpaces(text, k + Len(KapLit))
           IN  /\ HasLitCI(text, k, KapLit)
               /\ HasLit(text, p, paragraph)
               /\ HasLit(text, SkipSpaces(text, p + Len(paragraph)), ParLit)

\* re.search(r"1\s*kap\.\s*1\s*§|ensamrätt|patenterbara|5\s*kap\.\s*2\s*§", node.text,
\*           re.IGNORECASE)
important(text) ==
    \/ HasSection(text, <<"1">>, <<"1">>)
    \/ \E w \in ImportantWords : Contains(LowerText(text), w)
    \/ HasSection(text, <<"5">>, <<"2">>)

\* A chunk of the index: the text of a node and the metadata create_index leaves on it.
Chunk(text, file_name) ==
    [text |-> text,
     metadata |-> [file_name |-> file_name,
                   lifetime_info |-> lifetime_info(text),
                   patent_info |-> patent_info(text),
                   has_section |-> has_section(text),
                   important |-> important(text)]]

(***************************************************************************)
(* State.                                                                  *)
(*                                                                         *)
(* The Structural Tagger, one call of preprocess_legal_text:               *)
(*   content           the text read from the file                         *)
(*   enhanced_content  the text as rewritten so far                        *)
(*   tpc               the position in the function                        *)
(*   paragraph_tags    what step 2 wrote for each paragraph marker         *)
(*   explicit_tags     the tags step 7 inserted, as [chapter, para]        *)
(*   prepended         the law types whose boilerplate step 8 prepended    *)
(*   applications      how many times the function has run on this text    *)
(***************************************************************************)
VARIABLES content, enhanced_content, tpc, paragraph_tags, explicit_tags, prepended,
          applications

tagger_vars ==
    <<content, enhanced_content, tpc, paragraph_tags, explicit_tags, prepended,
      applications>>

(***************************************************************************)
(* The query pipeline, one request at a time:                              *)
(*   api_key        GEMINI_API_KEY is set (then both models are configured) *)
(*   index          an index is loaded                                     *)
(*   entry          the function the caller called                         *)
(*   query          the question of the caller                             *)
(*   gpc, qpc       the positions in get_response and in VectorStore.query *)
(*   query_text     the query text, rewritten or not                       *)
(*   key_concepts   the concepts found in the query                        *)
(*   source_nodes   the hits as retrieved                                  *)
(*   context_texts  the texts of the context, in the order of the prompt   *)
(*   response_text  the text of the synthesized answer                     *)
(*   rag_context    what VectorStore.query returned                        *)
(*   response       what get_response returned                             *)
(*   raised         the exceptions raised inside VectorStore.query         *)
(*   calls          the calls to the retriever and to the models           *)
(*   phases         the phases the query went through                      *)
(*   requests       how many requests have been made                       *)
(***************************************************************************)
VARIABLES api_key, index, entry, query, gpc, qpc, query_text, key_concepts,
          source_nodes, context_texts, response_text, rag_context, response, raised,
          calls, phases, requests

request_vars ==
    <<entry, query, gpc, qpc, query_text, key_concepts, source_nodes, context_texts,
      response_text, rag_context, response, raised, calls, phases>>

pipeline_vars == <<api_key, index, request_vars, requests>>

(***************************************************************************)
(* The batch, one call of process_all_text_files:                          *)
(*   input_dir        the files of the input directory, [file_name, text]  *)
(*   text_files       the names the listing kept                           *)
(*   batch_pos        the position of the loop in text_files               *)
(*   file_path        the file preprocess_legal_text is called on          *)
(*   processed_files  the output paths collected so far                    *)
(*   bpc              the position in the function                         *)
(***************************************************************************)
VARIABLES input_dir, text_files, batch_pos, file_path, processed_files, bpc

batch_vars == <<input_dir, text_files, batch_pos, file_path, processed_files, bpc>>

(***************************************************************************)
(* The index of the VectorStore:                                           *)
(*   processed_dir  the files of PDF_PROCESSED_DIR, [file_name, text]      *)
(*   index_nodes    the chunks of self.index (empty when index is None)    *)
(*   persisted      the index saved in VECTOR_STORE_DIR, if any            *)
(*   ipc            the position in __init__ / refresh_index               *)
(*   caller         who called create_index                                *)
(*   outcome        how the last call of create_index ended                *)
(*   status         what refresh_index returned last                       *)
(***************************************************************************)
VARIABLES processed_dir, index_nodes, persisted, ipc, caller, outcome, status

store_vars == <<processed_dir, index_nodes, persisted, ipc, caller, outcome, status>>

vars == <<tagger_vars, pipeline_vars, batch_vars, store_vars>>

(***************************************************************************)
(* The documents the tagger is run on: texts of at most MaxItems items,    *)
(* interleaved "N kap." and "M §" markers and filler words.                *)
(***************************************************************************)
MaxItems == 4

MarkerItems ==
    {<<"1"," ","k","a","p","."," ">>,
     <<"1","2","k","a","p",".">>,
     <<"1"," ","§"," ">>,
     <<"2","§">>,
     <<"o","r","d"," ">>}

RECURSIVE TextsOf(_, _)
TextsOf(items, n) ==
    IF n = 0
    THEN {<< >>}
    ELSE LET shorter == TextsOf(items, n - 1)
         IN  shorter \cup {t \o i : t \in shorter, i \in items}

TaggerInputs == TextsOf(MarkerItems, MaxItems)

\* The documents of the repeated run: texts that contain the opening words of a
\* recognized law type.
MaxRetagItems == 2

MaxApplications == 2

RetagItems ==
    {<<"D","e","n"," ","s","o","m"," ","h","a","r"," ","s","k","a","p","a","t"," ","e","t","t"," ",
  "m","ö","n","s","t","e","r"," ">>,
     <<"D","e","n"," ","s","o","m"," ","f","o","r","m","g","i","v","i","t"," ","e","n"," ","p","r",
  "o","d","u","k","t"," ">>,
     <<"1"," ","k","a","p","."," ">>,
     <<"1"," ","§"," ">>,
     <<"o","r","d"," ">>}

RetagInputs == TextsOf(RetagItems, MaxRetagItems)

TaggerIdle ==
    /\ content = << >>
    /\ enhanced_content = << >>
    /\ tpc = "idle"
    /\ paragraph_tags = << >>
    /\ explicit_tags = << >>
    /\ prepended = << >>
    /\ applications = 0

(***************************************************************************)
(* The requests: questions, the chunks of the index, the hit lists of the  *)
(* retriever and the texts the model answers with.                         *)
(***************************************************************************)
Questions ==
    {<<"v","a","d"," ","s","ä","g","e","r"," ","2"," ","k","a","p","."," ","5"," ","§">>,
     <<"h","u","r"," ","m","å","n","g","a"," ","å","r">>,
     <<"f","ö","r","s","t","a"," ","k","a","p","i","t","l","e","t","s"," ","1"," ","§">>,
     <<"h","e","j">>}

Corpus ==
    <<Chunk(<<"2"," ","k","a","p","."," ","5"," ","§"," ","S","k","y","d","d","s","t","i","d"," ","t","i",
  "o"," ","å","r">>, <<"p","a","t","e","n","t","l","a","g",".","t","x","t">>),
      Chunk(<<"1","2"," ","k","a","p","."," ","5"," ","§"," ","A","v","g","i","f","t","e","r">>, <<"a","v","g","i","f","t","e","r",".","t","x","t">>),
      Chunk(<<"1"," ","k","a","p","."," ","1"," ","§"," ","e","n","s","a","m","r","ä","t","t">>, <<"p","a","t","e","n","t","l","a","g",".","t","x","t">>)>>

MaxHits == 2

Scores == {30, 70}

\* A retrieved chunk with its score.
NodeWithScore(id, score) ==
    [id |-> id, text |-> Corpus[id].text, metadata |-> Corpus[id].metadata,
     score |-> score]

\* The hit lists: at most similarity_top_k distinct chunks, the most similar first; a
\* score may be missing.
HitLists ==
    LET shapes == UNION {[1..n -> (1..Len(Corpus)) \X (Scores \cup {NoScore})] :
                            n \in 0..Min({MaxHits, TopK})}
        ranked(h) ==
            /\ \A a, b \in 1..Len(h) : a # b => h[a][1] # h[b][1]
            /\ \A a, b \in 1..Len(h) :
                   (a < b /\ h[a][2] # NoScore /\ h[b][2] # NoScore) => h[a][2] >= h[b][2]
    IN  {[k \in 1..Len(h) |-> NodeWithScore(h[k][1], h[k][2])] :
            h \in {g \in shapes : ranked(g)}}

Answers ==
    {<<"E","n","l","i","g","t"," ","2"," ","k","a","p","."," ","5"," ","§"," ","p","a","t","e","n",
       "t","l","a","g",".","t","x","t">>,
     <<"I","n","g","e","t"," ","s","v","a","r"," ","i"," ","t","e","x","t","e","n">>}

Replies ==
    {<<"S","v","a","r">>}

MaxElapsed == 1

MaxRequests == 2

IndexUnavailableText ==
    <<"S","o","r","r","y",","," ","t","h","e"," ","d","o","c","u","m","e","n","t"," ","i","n",
      "d","e","x"," ","i","s"," ","n","o","t"," ","a","v","a","i","l","a","b","l","e"," ","r",
      "i","g","h","t"," ","n","o","w",".">>

ModelUnavailableText ==
    <<"S","o","r","r","y",","," ","t","h","e"," ","G","e","m","i","n","i"," ","m","o","d","e",
      "l"," ","i","s"," ","n","o","t"," ","a","v","a","i","l","a","b","l","e","."," ","P","l",
      "e","a","s","e"," ","c","h","e","c","k"," ","y","o","u","r"," ","A","P","I"," ","k","e",
      "y",".">>

ErrorPrefix ==
    <<"E","r","r","o","r"," ","p","r","o","c","e","s","s","i","n","g"," ","q","u","e","r","y",
      ":"," ">>

ChatErrorText ==
    <<"I","'","m"," ","s","o","r","r","y",","," ","I"," ","e","n","c","o","u","n","t","e","r",
      "e","d"," ","a","n"," ","e","r","r","o","r"," ","p","r","o","c","e","s","s","i","n","g",
      " ","y","o","u","r"," ","r","e","q","u","e","s","t",".">>

KeyErrorText ==
    <<"G","e","m","i","n","i"," ","A","P","I"," ","k","e","y"," ","n","o","t"," ","f","o","u",
      "n","d"," ","i","n"," ","e","n","v","i","r","o","n","m","e","n","t"," ","v","a","r","i",
      "a","b","l","e","s">>

RetrieveErrorText ==
    <<"r","e","t","r","i","e","v","a","l"," ","f","a","i","l","e","d">>

GenerateErrorText ==
    <<"g","e","n","e","r","a","t","i","o","n"," ","f","a","i","l","e","d">>

ScoreErrorText ==
    <<"'",">","'"," ","n","o","t"," ","s","u","p","p","o","r","t","e","d"," ","b","e","t","w",
      "e","e","n"," ","i","n","s","t","a","n","c","e","s"," ","o","f"," ","'","N","o","n","e",
      "T","y","p","e","'"," ","a","n","d"," ","'","f","l","o","a","t","'">>

FormatErrorText ==
    <<"u","n","s","u","p","p","o","r","t","e","d"," ","f","o","r","m","a","t"," ","s","t","r",
      "i","n","g"," ","p","a","s","s","e","d"," ","t","o"," ","N","o","n","e","T","y","p","e",
      ".","_","_","f","o","r","m","a","t","_","_">>

ChatFailedText ==
    <<"c","h","a","t"," ","f","a","i","l","e","d">>

NoResponse == [pending |-> TRUE]

RequestIdle ==
    /\ entry = "none"
    /\ query = << >>
    /\ gpc = "idle"
    /\ qpc = "idle"
    /\ query_text = << >>
    /\ key_concepts = << >>
    /\ source_nodes = << >>
    /\ context_texts = << >>
    /\ response_text = << >>
    /\ rag_context = NoResult
    /\ response = NoResponse
    /\ raised = << >>
    /\ calls = << >>
    /\ phases = << >>

PipelineIdle ==
    /\ api_key = FALSE
    /\ index = FALSE
    /\ RequestIdle
    /\ requests = 0

PipelineStart ==
    /\ api_key \in BOOLEAN
    /\ index \in BOOLEAN
    /\ RequestIdle
    /\ requests = 0

\* No call of process_all_text_files is under way; path is the file of a single call
\* of preprocess_legal_text, if any.
SingleFile(path) ==
    /\ input_dir = << >>
    /\ text_files = << >>
    /\ batch_pos = 0
    /\ file_path = path
    /\ processed_files = << >>
    /\ bpc = "idle"

BatchIdle == SingleFile(<< >>)

\* VECTOR_STORE_DIR: empty, or holding the saved index with its chunks.
NotSaved == [saved |-> FALSE, nodes |-> << >>]

Saved(nodes) == [saved |-> TRUE, nodes |-> nodes]

\* The VectorStore is constructed; its index, when loaded, holds the chunks of corpus
\* and was loaded from the saved index.
StoreLoaded(corpus) ==
    /\ processed_dir = << >>
    /\ index_nodes = (IF index THEN corpus ELSE << >>)
    /\ persisted = (IF index THEN Saved(corpus) ELSE NotSaved)
    /\ ipc = "ready"
    /\ caller = "none"
    /\ outcome = "none"
    /\ status = "none"

\* No VectorStore is constructed and both directories are empty.
StoreAbsent ==
    /\ processed_dir = << >>
    /\ index_nodes = << >>
    /\ persisted = NotSaved
    /\ ipc = "absent"
    /\ caller = "none"
    /\ outcome = "none"
    /\ status = "none"

\* The file of a single call of preprocess_legal_text.
TaggerFile ==     <<"l","a","g",".","t","x","t">>

\* The directory dir with the file file_name written (created or replaced).
WithFile(dir, file_name, text) ==
    IF \E k \in 1..Len(dir) : dir[k].file_name = file_name
    THEN [k \in 1..Len(dir) |->
             IF dir[k].file_name = file_name
             THEN [file_name |-> file_name, text |-> text] ELSE dir[k]]
    ELSE Append(dir, [file_name |-> file_name, text |-> text])

TaggerStart(inputs) ==
    /\ content \in inputs
    /\ enhanced_content = << >>
    /\ tpc = "read"
    /\ paragraph_tags = << >>
    /\ explicit_tags = << >>
    /\ prepended = << >>
    /\ applications = 0
    /\ PipelineIdle
    /\ SingleFile(TaggerFile)
    /\ StoreAbsent

(***************************************************************************)
(* preprocess_legal_text, step by step.                                    *)
(***************************************************************************)
\* with open(file_path, "r", encoding="utf-8") as f: content = f.read()
ReadFile ==
    /\ tpc = "read"
    /\ tpc' = "step1"
    /\ UNCHANGED <<content, enhanced_content, paragraph_tags, explicit_tags, prepended,
                   applications>>
    /\ UNCHANGED <<pipeline_vars, batch_vars, store_vars>>

\* open() or read() raises: except Exception ... return None
ReadFails ==
    /\ tpc = "read"
    /\ tpc' = "failed"
    /\ UNCHANGED <<content, enhanced_content, paragraph_tags, explicit_tags, prepended,
                   applications>>
    /\ UNCHANGED <<pipeline_vars, batch_vars, store_vars>>

Step1 ==
    /\ tpc = "step1"
    /\ enhanced_content' = MarkChapters(content)
    /\ tpc' = "step2"
    /\ UNCHANGED <<content, paragraph_tags, explicit_tags, prepended, applications>>
    /\ UNCHANGED <<pipeline_vars, batch_vars, store_vars>>

Step2 ==
    /\ tpc = "step2"
    /\ enhanced_content' = EnhanceParagraphs(enhanced_content)
    /\ paragraph_tags' = ParagraphTags(enhanced_content)
    /\ tpc' = "step3"
    /\ UNCHANGED <<content, explicit_tags, prepended, applications>>
    /\ UNCHANGED <<pipeline_vars, batch_vars, store_vars>>

Step3 ==
    /\ tpc = "step3"
    /\ enhanced_content' = MarkImportantSections(enhanced_content)
    /\ tpc' = "step4"
    /\ UNCHANGED <<content, paragraph_tags, explicit_tags, prepended, applications>>
    /\ UNCHANGED <<pipeline_vars, batch_vars, store_vars>>

Step4 ==
    /\ tpc = "step4"
    /\ enhanced_content' = FormatHeaders(enhanced_content)
    /\ tpc' = "step5"
    /\ UNCHANGED <<content, paragraph_tags, explicit_tags, prepended, applications>>
    /\ UNCHANGED <<pipeline_vars, batch_vars, store_vars>>

Step5 ==
    /\ tpc = "step5"
    /\ enhanced_content' = RepeatTerms(enhanced_content)
    /\ tpc' = "step6"
    /\ UNCHANGED <<content, paragraph_tags, explicit_tags, prepended, applications>>
    /\ UNCHANGED <<pipeline_vars, batch_vars, store_vars>>

Step6 ==
    /\ tpc = "step6"
    /\ enhanced_content' = AddSectionMarkers(enhanced_content)
    /\ tpc' = "step7"
    /\ UNCHANGED <<content, paragraph_tags, explicit_tags, prepended, applications>>
    /\ UNCHANGED <<pipeline_vars, batch_vars, store_vars>>

Step7 ==
    /\ tpc = "step7"
    /\ enhanced_content' = AddExplicitTags(enhanced_content).text
    /\ explicit_tags' = AddExplicitTags(enhanced_content).tags
    /\ tpc' = "step8"
    /\ UNCHANGED <<content, paragraph_tags, prepended, applications>>
    /\ UNCHANGED <<pipeline_vars, batch_vars, store_vars>>

Step8 ==
    /\ tpc = "step8"
    /\ enhanced_content' = MarkFirstParagraphs(enhanced_content)
    /\ prepended' = PrependedFrom(1, enhanced_content)
    /\ tpc' = "write"
    /\ UNCHANGED <<content, paragraph_tags, explicit_tags, applications>>
    /\ UNCHANGED <<pipeline_vars, batch_vars, store_vars>>

\* with open(output_path, "w", encoding="utf-8") as f: f.write(enhanced_content)
WriteFile ==
    /\ tpc = "write"
    /\ tpc' = "written"
    /\ applications' = applications + 1
    /\ processed_dir' = WithFile(processed_dir, file_path, enhanced_content)
    /\ UNCHANGED <<content, enhanced_content, paragraph_tags, explicit_tags, prepended>>
    /\ UNCHANGED <<index_nodes, persisted, ipc, caller, outcome, status>>
    /\ UNCHANGED <<pipeline_vars, batch_vars>>

\* open() raises and the directory is as it was, or write() raises after open()
\* truncated the file: except Exception ... return None
WriteFails ==
    /\ tpc = "write"
    /\ tpc' = "failed"
    /\ processed_dir' \in {processed_dir, WithFile(processed_dir, file_path, << >>)}
    /\ UNCHANGED <<content, enhanced_content, paragraph_tags, explicit_tags, prepended,
                   applications>>
    /\ UNCHANGED <<index_nodes, persisted, ipc, caller, outcome, status>>
    /\ UNCHANGED <<pipeline_vars, batch_vars>>

\* The function is run again, on the text it wrote.
Reapply ==
    /\ tpc = "written"
    /\ applications < MaxApplications
    /\ content' = enhanced_content
    /\ enhanced_content' = << >>
    /\ tpc' = "read"
    /\ paragraph_tags' = << >>
    /\ explicit_tags' = << >>
    /\ prepended' = << >>
    /\ UNCHANGED applications
    /\ UNCHANGED <<pipeline_vars, batch_vars, store_vars>>

TaggerStep ==
    \/ ReadFile
    \/ ReadFails
    \/ Step1
    \/ Step2
    \/ Step3
    \/ Step4
    \/ Step5
    \/ Step6
    \/ Step7
    \/ Step8
    \/ WriteFile
    \/ WriteFails

TaggerNext == TaggerStep

RetagNext == TaggerStep \/ Reapply

TaggerInit == TaggerStart(TaggerInputs)

SpecTagger == TaggerInit /\ [][TaggerNext]_vars

RetagInit == TaggerStart(RetagInputs)

SpecRetag == RetagInit /\ [][RetagNext]_vars

(***************************************************************************)
(* VectorStore.query.                                                      *)
(***************************************************************************)
\* A try block that ends before the source attribution.
InTryBeforeAttribution(position) == position \in {"rewrite", "retrieve", "model_check"}

\* The statements of query inside its try block (lines 163-373).
InTry(position) == position \in {"rewrite", "retrieve", "model_check", "attribute"}

\* Where control goes when the statement at position raises.
Raise(position) == IF InTry(position) THEN "except" ELSE "raised"

\* The prompts: the context texts (none in the direct prompt) and the question.
Prompt(texts, question) == [context |-> texts, question |-> question]

\* A direct prompt that carries the context of the primary path.
DirectPromptWithContext(question) == [context |-> context_texts, question |-> question]

DirectPrompt(question) == [context |-> << >>, question |-> question]

Call(op, phase, arg, ok) == [op |-> op, phase |-> phase, arg |-> arg, ok |-> ok]

\* A caller calls VectorStore.query directly.
Query(q) ==
    /\ entry = "none"
    /\ requests < MaxRequests
    /\ requests' = requests + 1
    /\ entry' = "query"
    /\ query' = q
    /\ query_text' = q
    /\ qpc' = "index_check"
    /\ UNCHANGED <<tagger_vars, batch_vars, store_vars>>
    /\ UNCHANGED <<api_key, index, gpc, key_concepts, source_nodes, context_texts,
                   response_text, rag_context, response, raised, calls, phases>>

\* An index check that raises into the except branch instead of returning.
IndexUnavailableFallsBack ==
    /\ qpc = "index_check"
    /\ ~index
    /\ raised' = Append(raised, IndexUnavailableText)
    /\ qpc' = "except"
    /\ UNCHANGED <<tagger_vars, batch_vars, store_vars>>
    /\ UNCHANGED <<api_key, index, entry, query, gpc, query_text, key_concepts,
                   source_nodes, context_texts, response_text, rag_context, response,
                   calls, phases, requests>>

\* if not self.index: return "Sorry, the document index is not available right now."
IndexUnavailable ==
    /\ qpc = "index_check"
    /\ ~index
    /\ rag_context' = PlainText(IndexUnavailableText)
    /\ qpc' = "returned"
    /\ UNCHANGED <<tagger_vars, batch_vars, store_vars>>
    /\ UNCHANGED <<api_key, index, entry, query, gpc, query_text, key_concepts,
                   source_nodes, context_texts, response_text, response, raised, calls,
                   phases, requests>>

\* The query rewrite and the key concepts, the first statements of the try block.
RewriteQuery ==
    /\ qpc = "index_check"
    /\ index
    /\ query_text' = EnhanceQuery(query_text)
    /\ key_concepts' = FoundKeyConcepts(EnhanceQuery(query_text))
    /\ phases' = Append(phases, "Primary")
    /\ qpc' = "retrieve"
    /\ UNCHANGED <<tagger_vars, batch_vars, store_vars>>
    /\ UNCHANGED <<api_key, index, entry, query, gpc, source_nodes, context_texts,
                   response_text, rag_context, response, raised, calls, requests>>

\* The retrieval as it would be if source_nodes were taken after the re-ranking.
RetrieveReordered(nodes) ==
    /\ qpc = "retrieve"
    /\ calls' = Append(calls, Call("retrieve", "Primary", Prompt(<<query_text>>,
            query_text),
                                   TRUE))
    /\ source_nodes' = [k \in 1..Len(nodes) |-> nodes[ContextOrder(query_text, nodes)[k]]]
    /\ context_texts' = ContextTexts(query_text, nodes)
    /\ qpc' = "model_check"
    /\ UNCHANGED <<tagger_vars, batch_vars, store_vars>>
    /\ UNCHANGED <<api_key, index, entry, query, gpc, query_text, key_concepts,
                   response_text, rag_context, response, raised, phases, requests>>

\* nodes = retriever.retrieve(query_text) and the assembly of the context.
Retrieve(nodes) ==
    /\ qpc = "retrieve"
    /\ calls' = Append(calls, Call("retrieve", "Primary", Prompt(<<query_text>>,
            query_text),
                                   TRUE))
    /\ source_nodes' = nodes
    /\ context_texts' = ContextTexts(query_text, nodes)
    /\ qpc' = "model_check"
    /\ UNCHANGED <<tagger_vars, batch_vars, store_vars>>
    /\ UNCHANGED <<api_key, index, entry, query, gpc, query_text, key_concepts,
                   response_text, rag_context, response, raised, phases, requests>>

\* retriever.retrieve raises.
RetrieveFails ==
    /\ qpc = "retrieve"
    /\ calls' = Append(calls, Call("retrieve", "Primary", Prompt(<<query_text>>,
            query_text),
                                   FALSE))
    /\ raised' = Append(raised, RetrieveErrorText)
    /\ qpc' = Raise("retrieve")
    /\ UNCHANGED <<tagger_vars, batch_vars, store_vars>>
    /\ UNCHANGED <<api_key, index, entry, query, gpc, query_text, key_concepts,
                   source_nodes, context_texts, response_text, rag_context, response,
                   phases, requests>>

\* if not self.model: return "Sorry, the Gemini model is not available. ..."
ModelUnavailable ==
    /\ qpc = "model_check"
    /\ ~api_key
    /\ rag_context' = PlainText(ModelUnavailableText)
    /\ qpc' = "returned"
    /\ UNCHANGED <<tagger_vars, batch_vars, store_vars>>
    /\ UNCHANGED <<api_key, index, entry, query, gpc, query_text, key_concepts,
                   source_nodes, context_texts, response_text, response, raised, calls,
                   phases, requests>>

\* gemini_response = self.model.generate_content(prompt); response_text = ....text
Generate(text) ==
    /\ qpc = "model_check"
    /\ api_key
    /\ calls' = Append(calls, Call("generate_content", "Primary",
                                   Prompt(context_texts, query_text), TRUE))
    /\ response_text' = text
    /\ qpc' = "attribute"
    /\ UNCHANGED <<tagger_vars, batch_vars, store_vars>>
    /\ UNCHANGED <<api_key, index, entry, query, gpc, query_text, key_concepts,
                   source_nodes, context_texts, rag_context, response, raised, phases,
                   requests>>

\* generate_content or .text raises.
GenerateFails ==
    /\ qpc = "model_check"
    /\ api_key
    /\ calls' = Append(calls, Call("generate_content", "Primary",
                                   Prompt(context_texts, query_text), FALSE))
    /\ raised' = Append(raised, GenerateErrorText)
    /\ qpc' = Raise("model_check")
    /\ UNCHANGED <<tagger_vars, batch_vars, store_vars>>
    /\ UNCHANGED <<api_key, index, entry, query, gpc, query_text, key_concepts,
                   source_nodes, context_texts, response_text, rag_context, response,
                   phases, requests>>

\* node.score > 0.5 raises for a hit without a score, when no citation was attributed.
AttributionRaises ==
    /\ AttributeFrom([nodes |-> source_nodes, used |-> << >>],
                     Citations(response_text), 1).used = << >>
    /\ \E i \in 1..Len(source_nodes) : source_nodes[i].score = NoScore

\* The source attribution and return EnhancedResponse(response_text, source_nodes,
\* used_sources).
AttributeSources ==
    /\ qpc = "attribute"
    /\ ~AttributionRaises
    /\ LET st == Attribute(response_text, source_nodes)
       IN  /\ source_nodes' = st.nodes
           /\ rag_context' = EnhancedResponse(response_text, st.nodes, st.used)
    /\ qpc' = "returned"
    /\ UNCHANGED <<tagger_vars, batch_vars, store_vars>>
    /\ UNCHANGED <<api_key, index, entry, query, gpc, query_text, key_concepts,
                   context_texts, response_text, response, raised, calls, phases,
                   requests>>

AttributeFails ==
    /\ qpc = "attribute"
    /\ AttributionRaises
    /\ raised' = Append(raised, ScoreErrorText)
    /\ qpc' = Raise("attribute")
    /\ UNCHANGED <<tagger_vars, batch_vars, store_vars>>
    /\ UNCHANGED <<api_key, index, entry, query, gpc, query_text, key_concepts,
                   source_nodes, context_texts, response_text, rag_context, response,
                   calls, phases, requests>>

\* except Exception as e: if self.model: the direct query, return FallbackResponse(...)
Fallback(text) ==
    /\ qpc = "except"
    /\ api_key
    /\ phases' = Append(phases, "Fallback")
    /\ calls' = Append(calls, Call("generate_content", "Fallback", DirectPrompt(query_text),
                                   TRUE))
    /\ rag_context' = FallbackResponse(text)
    /\ qpc' = "returned"
    /\ UNCHANGED <<tagger_vars, batch_vars, store_vars>>
    /\ UNCHANGED <<api_key, index, entry, query, gpc, query_text, key_concepts,
                   source_nodes, context_texts, response_text, response, raised, requests>>

\* The direct query raises: except Exception as fallback_e, then the error string.
FallbackFails ==
    /\ qpc = "except"
    /\ api_key
    /\ phases' = phases \o <<"Fallback", "DegradedError">>
    /\ calls' = Append(calls, Call("generate_content", "Fallback", DirectPrompt(query_text),
                                   FALSE))
    /\ raised' = Append(raised, GenerateErrorText)
    /\ rag_context' = PlainText(ErrorPrefix \o raised[1])
    /\ qpc' = "returned"
    /\ UNCHANGED <<tagger_vars, batch_vars, store_vars>>
    /\ UNCHANGED <<api_key, index, entry, query, gpc, query_text, key_concepts,
                   source_nodes, context_texts, response_text, response, requests>>

\* An except branch that returns the error string without looking for a model.
NoFallbackUnguarded ==
    /\ qpc = "except"
    /\ phases' = Append(phases, "DegradedError")
    /\ rag_context' = PlainText(ErrorPrefix \o raised[1])
    /\ qpc' = "returned"
    /\ UNCHANGED <<tagger_vars, batch_vars, store_vars>>
    /\ UNCHANGED <<api_key, index, entry, query, gpc, query_text, key_concepts,
                   source_nodes, context_texts, response_text, response, raised, calls,
                   requests>>

\* except Exception as e: without a model, return f"Error processing query: {str(e)}"
NoFallback ==
    /\ qpc = "except"
    /\ ~api_key
    /\ phases' = Append(phases, "DegradedError")
    /\ rag_context' = PlainText(ErrorPrefix \o raised[1])
    /\ qpc' = "returned"
    /\ UNCHANGED <<tagger_vars, batch_vars, store_vars>>
    /\ UNCHANGED <<api_key, index, entry, query, gpc, query_text, key_concepts,
                   source_nodes, context_texts, response_text, response, raised, calls,
                   requests>>

(***************************************************************************)
(* Chatbot.get_response.                                                   *)
(***************************************************************************)
\* A try block that ends before the chat call.
InResponseTryBeforeChat(position) == position \in {"key_check", "query"}

\* The statements of get_response inside its try block (lines 89-145).
InResponseTry(position) == position \in {"key_check", "query", "chat"}

RaiseInResponse(position) == IF InResponseTry(position) THEN "done" ELSE "raised"

\* The dict of the success path.
Answer(answer, sources, elapsed_time) ==
    [answer |-> answer, sources |-> sources, response_time |-> elapsed_time]

\* The dict of the except branch.
ErrorAnswer(e, elapsed_time) ==
    [answer |-> ChatErrorText, error |-> e, response_time |-> elapsed_time]

\* A caller calls get_response.
GetResponse(q) ==
    /\ entry = "none"
    /\ requests < MaxRequests
    /\ requests' = requests + 1
    /\ entry' = "get_response"
    /\ query' = q
    /\ gpc' = "key_check"
    /\ UNCHANGED <<tagger_vars, batch_vars, store_vars>>
    /\ UNCHANGED <<api_key, index, qpc, query_text, key_concepts, source_nodes,
                   context_texts, response_text, rag_context, response, raised, calls,
                   phases>>

\* if not GEMINI_API_KEY: raise ValueError(...)
KeyMissing(elapsed_time) ==
    /\ gpc = "key_check"
    /\ ~api_key
    /\ gpc' = RaiseInResponse("key_check")
    /\ response' = ErrorAnswer(KeyErrorText, elapsed_time)
    /\ UNCHANGED <<tagger_vars, batch_vars, store_vars>>
    /\ UNCHANGED <<api_key, index, entry, query, qpc, query_text, key_concepts,
                   source_nodes, context_texts, response_text, rag_context, raised, calls,
                   phases, requests>>

\* rag_context = self.vector_store.query(query)
CallQuery ==
    /\ gpc = "key_check"
    /\ api_key
    /\ gpc' = "query"
    /\ query_text' = query
    /\ qpc' = "index_check"
    /\ UNCHANGED <<tagger_vars, batch_vars, store_vars>>
    /\ UNCHANGED <<api_key, index, entry, query, key_concepts, source_nodes,
                   context_texts, response_text, rag_context, response, raised, calls,
                   phases, requests>>

\* chat.send_message(prompt) with context_str = str(rag_context), and the result.
SendMessage(text, elapsed_time) ==
    /\ gpc = "query"
    /\ qpc = "returned"
    /\ calls' = Append(calls, Call("send_message", "Chat",
                                   Prompt(<<rag_context.text>>, query), TRUE))
    /\ gpc' = "done"
    /\ response' = IF FormatRaises(rag_context)
                   THEN ErrorAnswer(FormatErrorText, elapsed_time)
                   ELSE Answer(text, get_formatted_sources(rag_context), elapsed_time)
    /\ UNCHANGED <<tagger_vars, batch_vars, store_vars>>
    /\ UNCHANGED <<api_key, index, entry, query, qpc, query_text, key_concepts,
                   source_nodes, context_texts, response_text, rag_context, raised,
                   phases, requests>>

\* start_chat, send_message or .text raises.
SendMessageFails(elapsed_time) ==
    /\ gpc = "query"
    /\ qpc = "returned"
    /\ calls' = Append(calls, Call("send_message", "Chat",
                                   Prompt(<<rag_context.text>>, query), FALSE))
    /\ gpc' = RaiseInResponse("chat")
    /\ response' = ErrorAnswer(ChatFailedText, elapsed_time)
    /\ UNCHANGED <<tagger_vars, batch_vars, store_vars>>
    /\ UNCHANGED <<api_key, index, entry, query, qpc, query_text, key_concepts,
                   source_nodes, context_texts, response_text, rag_context, raised,
                   phases, requests>>

\* The request is over: the caller has its result, the next request starts afresh.
Finished ==
    \/ entry = "query" /\ qpc \in {"returned", "raised"}
    \/ entry = "get_response" /\ gpc \in {"done", "raised"}

NextRequest ==
    /\ Finished
    /\ requests < MaxRequests
    /\ entry' = "none"
    /\ query' = << >>
    /\ gpc' = "idle"
    /\ qpc' = "idle"
    /\ query_text' = << >>
    /\ key_concepts' = << >>
    /\ source_nodes' = << >>
    /\ context_texts' = << >>
    /\ response_text' = << >>
    /\ rag_context' = NoResult
    /\ response' = NoResponse
    /\ raised' = << >>
    /\ calls' = << >>
    /\ phases' = << >>
    /\ UNCHANGED <<tagger_vars, batch_vars, store_vars>>
    /\ UNCHANGED <<api_key, index, requests>>

\* One step of the pipeline for the questions, hit lists and model answers given.
PipelineStepOn(questions, hit_lists, answers) ==
    \/ \E q \in questions : Query(q)
    \/ IndexUnavailable
    \/ RewriteQuery
    \/ \E nodes \in hit_lists : Retrieve(nodes)
    \/ RetrieveFails
    \/ ModelUnavailable
    \/ \E text \in answers : Generate(text)
    \/ GenerateFails
    \/ AttributeSources
    \/ AttributeFails
    \/ \E text \in answers : Fallback(text)
    \/ FallbackFails
    \/ NoFallback
    \/ \E q \in questions : GetResponse(q)
    \/ \E t \in 0..MaxElapsed : KeyMissing(t)
    \/ CallQuery
    \/ \E text \in Replies, t \in 0..MaxElapsed : SendMessage(text, t)
    \/ \E t \in 0..MaxElapsed : SendMessageFails(t)
    \/ NextRequest

PipelineStep == PipelineStepOn(Questions, HitLists, Answers)

Next == PipelineStep

Init == PipelineStart /\ TaggerIdle /\ BatchIdle /\ StoreLoaded(Corpus)

Spec == Init /\ [][Next]_vars

(***************************************************************************)
(* Properties of the query pipeline (specification Spec).                  *)
(***************************************************************************)
\* The calls of the Fallback path.
FallbackCalls == SelectSeq(calls, LAMBDA c : c.phase = "Fallback")

\* The Degraded-Error result: the plain error string.
IsErrorString(r) == r.kind = "str" /\ HasLit(r.text, 1, ErrorPrefix)

\* The retriever returned, and returned no hit.
ZeroHits ==
    /\ \E i \in 1..Len(calls) : calls[i].op = "retrieve" /\ calls[i].ok
    /\ source_nodes = << >>

\* C1: VectorStore.query never raises past its boundary: whatever fails (the
\* similarity search, a model call, the source attribution), control never leaves
\* query with an exception, and what query returns is an EnhancedResponse, a
\* FallbackResponse or a plain string; after a failure it is one of the last two.
QueryNeverRaises ==
    /\ qpc # "raised"
    /\ qpc = "returned" =>
           /\ rag_context.kind \in {"EnhancedResponse", "FallbackResponse", "str"}
           /\ raised # << >> => rag_context.kind \in {"FallbackResponse", "str"}

\* The attribution failed, the fallback failed too, and query returned the error string.
QueryReturnedAfterFailures ==
    /\ qpc = "returned"
    /\ raised = <<ScoreErrorText, GenerateErrorText>>
    /\ IsErrorString(rag_context)

\* C2, as stated: get_response never raises and every result carries an answer, a
\* sources field and an elapsed time.
ResponseCarriesSources ==
    /\ gpc # "raised"
    /\ gpc = "done" => {"answer", "sources", "response_time"} \subseteq DOMAIN response

\* get_response completed its success path.
ResponseSucceeded ==
    /\ api_key
    /\ calls # << >>
    /\ calls[Len(calls)].op = "send_message"
    /\ calls[Len(calls)].ok
    /\ ~FormatRaises(rag_context)

\* C2, amended: get_response never raises and every result carries an answer text and
\* an elapsed time; the result of the success path also carries a sources field, and
\* the result of every failure path carries the fixed error answer and an error field
\* and no sources field.
ResponseShape ==
    /\ gpc # "raised"
    /\ gpc = "done" =>
           /\ response.answer # << >>
           /\ response.response_time \in 0..MaxElapsed
           /\ IF ResponseSucceeded
              THEN DOMAIN response = {"answer", "sources", "response_time"}
              ELSE /\ DOMAIN response = {"answer", "error", "response_time"}
                   /\ response.answer = ChatErrorText

\* The chat call failed after the query had returned, and get_response returned.
ResponseAfterChatFailure ==
    /\ gpc = "done"
    /\ qpc = "returned"
    /\ ~calls[Len(calls)].ok
    /\ response.error = ChatFailedText

IsPrefix(s, t) == Len(s) <= Len(t) /\ SubSeq(t, 1, Len(s)) = s

\* C3, as stated: the phases of a query are Primary, Fallback, Degraded-Error in this
\* order; Fallback follows an exception of the primary path, and the error string is
\* returned only after a Fallback attempt that failed.
PhasesInOrder ==
    /\ IsPrefix(phases, <<"Primary", "Fallback", "DegradedError">>)
    /\ FallbackCalls # << >> => raised # << >>
    /\ IsErrorString(rag_context) =>
           \E i \in 1..Len(FallbackCalls) : ~FallbackCalls[i].ok

\* C3, amended: the phases of a query are Primary, Fallback, Degraded-Error in this
\* order, or Primary, Degraded-Error when no model is configured; Fallback is entered
\* only after an exception of the primary path and only with a model; the error string
\* is returned only after an exception of the primary path, and then after the one
\* Fallback attempt failed (model configured) or without any Fallback attempt (no
\* model).
PhasesInOrderOrNoModel ==
    /\ phases \in {<< >>, <<"Primary">>, <<"Primary", "Fallback">>,
                   <<"Primary", "Fallback", "DegradedError">>,
                   <<"Primary", "DegradedError">>}
    /\ FallbackCalls # << >> =>
           /\ raised # << >>
           /\ api_key
           /\ phases[2] = "Fallback"
    /\ IsErrorString(rag_context) =>
           /\ raised # << >>
           /\ phases[Len(phases)] = "DegradedError"
           /\ IF api_key
              THEN Len(FallbackCalls) = 1 /\ ~FallbackCalls[1].ok
              ELSE FallbackCalls = << >> /\ phases = <<"Primary", "DegradedError">>
    /\ (Len(phases) > 1 /\ phases[Len(phases)] = "DegradedError") =>
           IsErrorString(rag_context)

\* Without a model the retrieval failed and query returned the error string at once.
DegradedWithoutFallback ==
    /\ ~api_key
    /\ raised = <<RetrieveErrorText>>
    /\ phases = <<"Primary", "DegradedError">>
    /\ rag_context = PlainText(ErrorPrefix \o RetrieveErrorText)

\* C4: the Fallback path retrieves nothing and makes one model call, without context,
\* for the query text; when the call succeeds query returns the answer of the model
\* with the disclaimer as its source information; there is at most one Fallback attempt
\* per query.
FallbackIsContextFree ==
    /\ Len(FallbackCalls) <= 1
    /\ \A i \in 1..Len(calls) :
           calls[i].phase = "Fallback" =>
               /\ calls[i].op = "generate_content"
               /\ calls[i].arg = [context |-> << >>, question |-> query_text]
               /\ \A j \in (i + 1)..Len(calls) :
                      calls[j].op \notin {"retrieve", "generate_content"}
    /\ rag_context.kind = "FallbackResponse" =>
           /\ Len(FallbackCalls) = 1
           /\ FallbackCalls[1].ok
           /\ rag_context.text \in Answers
           /\ rag_context.source_nodes = << >>
           /\ get_formatted_sources(rag_context) = FallbackDisclaimer

\* The synthesis failed with a context at hand, and the Fallback answered.
FallbackAfterSynthesisFailure ==
    /\ rag_context.kind = "FallbackResponse"
    /\ raised = <<GenerateErrorText>>
    /\ context_texts # << >>
    /\ source_nodes # << >>

\* C5: when no index is loaded at query time, the request returns the fixed
\* unavailable message and makes no model call.
IndexAbsentNoModelCall ==
    (~index /\ qpc = "returned" /\ Finished) =>
        /\ rag_context = PlainText(IndexUnavailableText)
        /\ \A i \in 1..Len(calls) : calls[i].op \notin {"generate_content", "send_message"}
        /\ entry = "get_response" => response.answer = IndexUnavailableText

EmptyRetrievalAnswers ==
    ZeroHits =>
        /\ gpc # "raised"
        /\ qpc # "raised"
        /\ context_texts = <<NoDocumentsText>>
        /\ raised # << >> => raised[1] = GenerateErrorText
        /\ (api_key /\ qpc \in {"attribute", "except", "returned"}) =>
               /\ calls[2].op = "generate_content"
               /\ calls[2].arg = [context |-> <<NoDocumentsText>>, question |-> query_text]
        /\ (qpc = "returned" /\ raised = << >> /\ api_key) =>
               /\ rag_context.kind = "EnhancedResponse"
               /\ rag_context.source_nodes = << >>
               /\ rag_context.used_sources = << >>
        /\ (gpc = "done" /\ raised = << >> /\ calls[Len(calls)].ok) =>
               /\ response.answer # << >>
               /\ response.answer \in Replies
               /\ DOMAIN response = {"answer", "sources", "response_time"}
               /\ response.sources = NoSourcesText

\* The retriever returned no hit and get_response returned the answer.
EmptyRetrievalAnswered ==
    /\ ZeroHits
    /\ gpc = "done"
    /\ rag_context.kind = "EnhancedResponse"
    /\ "sources" \in DOMAIN response

(***************************************************************************)
(* Properties of the Structural Tagger (specifications SpecTagger and      *)
(* SpecRetag).                                                             *)
(***************************************************************************)
\* The chapter markers "N kap." of a text, by the index of their first digit.
ChapterStarts(t) ==
    {i \in 1..Len(t) : ChapterEnd(t, i) # 0 /\ (i = 1 \/ ~IsDigit(t[i - 1]))}

\* The chapter number of the nearest chapter marker before index pos of the text t,
\* NoChapter when no chapter marker precedes pos.
NearestChapter(t, pos) ==
    LET before == {i \in ChapterStarts(t) : i < pos}
    IN  IF before = {}
        THEN NoChapter
        ELSE DigitsAt(t, CHOOSE i \in before : \A j \in before : j <= i)

\* The paragraph markers "M §" of the text read, each with the chapter of the nearest
\* chapter marker before it.
OriginalParagraphs ==
    LET ms == FindIter(ParagraphEnds(content))
    IN  [k \in 1..Len(ms) |->
            [para |-> Group1(content, ms[k]),
             chapter |-> NearestChapter(content, ms[k].s)]]

\* The chapter numbers of the inline tags " (i N kap.) " of a text, in order.
InlineTagChapters(t) ==
    LET at == SelectSeq([i \in 1..Len(t) |-> i],
                        LAMBDA i : /\ HasLit(t, i, InlineOpen)
                                   /\ DigitsAt(t, i + Len(InlineOpen)) # << >>
                                   /\ HasLit(t, SkipDigits(t, i + Len(InlineOpen)),
                                             InlineClose))
    IN  [k \in 1..Len(at) |-> DigitsAt(t, at[k] + Len(InlineOpen))]

\* C8: step 2 rewrites every paragraph marker of the text read, and the chapter of its
\* inline tag is the chapter of the nearest chapter marker before the paragraph marker
\* in the text read; a paragraph marker that no chapter marker precedes gets no inline
\* tag.
ParagraphTagsNearest ==
    tpc = "step3" =>
        /\ paragraph_tags = OriginalParagraphs
        /\ InlineTagChapters(enhanced_content)
               = [k \in 1..Len(SelectSeq(OriginalParagraphs,
                                         LAMBDA p : p.chapter # NoChapter)) |->
                     SelectSeq(OriginalParagraphs,
                               LAMBDA p : p.chapter # NoChapter)[k].chapter]

\* Step 2 rewrote a paragraph marker that no chapter precedes, and one that two
\* different chapter markers precede.
ParagraphsWithAndWithoutChapter ==
    /\ tpc = "step3"
    /\ \E j, k \in 1..Len(paragraph_tags) :
           /\ j < k
           /\ paragraph_tags[j].chapter = NoChapter
           /\ paragraph_tags[k].chapter # NoChapter
    /\ \E i, j \in ChapterStarts(content) : DigitsAt(content, i) # DigitsAt(content, j)

\* C9: every explicit tag (Kapitel N, Paragraf M) that step 7 inserts belongs to a
\* paragraph marker "M §" of the text read whose nearest preceding chapter marker is
\* "N kap.".
ExplicitTagsNearest ==
    tpc \in {"step8", "write", "written"} =>
        \A k \in 1..Len(explicit_tags) :
            \E j \in 1..Len(OriginalParagraphs) :
                /\ OriginalParagraphs[j].para = explicit_tags[k].para
                /\ OriginalParagraphs[j].chapter = explicit_tags[k].chapter

\* C10: the second run of the function, on the text the first run wrote, prepends no
\* first-paragraph boilerplate.
BoilerplateNotPrependedAgain ==
    (applications >= 1 /\ tpc = "write") => prepended = << >>

(***************************************************************************)
(* The query rewrite on questions with chapter and paragraph references    *)
(* (specification SpecRewrite): questions of at most MaxQuestionItems      *)
(* items.                                                                  *)
(***************************************************************************)
MaxQuestionItems == 2

QuestionItems ==
    {<<"2"," ","k","a","p","."," ","5"," ","§"," ">>,
     <<"3"," ","k","a","p","i","t","e","l"," ">>,
     <<"7"," ","k","a","p"," ">>,
     <<"5"," ","§"," ">>,
     <<"4"," ","p","a","r","a","g","r","a","f"," ">>,
     <<"f","ö","r","s","t","a"," ","k","a","p","i","t","l","e","t","s"," ">>,
     <<"o","r","d"," ">>}

RewriteQuestions == TextsOf(QuestionItems, MaxQuestionItems)

\* The retriever finds nothing or one chunk (with a high score or with none).
RewriteHitLists == {h \in HitLists : Len(h) = 0 \/ (Len(h) = 1 /\ h[1].score # 30)}

RewriteAnswers == {<<"I","n","g","e","t"," ","s","v","a","r"," ","i"," ","t","e","x","t","e","n">>}

RewriteNext == PipelineStepOn(RewriteQuestions, RewriteHitLists, RewriteAnswers)

SpecRewrite == Init /\ [][RewriteNext]_vars

\* The query rewrite has run: query is the question, query_text what goes to the index.
Rewritten == qpc = "retrieve"

\* The chapter references of a question, in any form the detector accepts: the
\* indices where digits and a chapter word start.
ChapterRefs(t) == {i \in 1..Len(t) : IsDigit(t[i]) /\ HasLitCI(t, SkipSpaces(t, SkipDigits(t, i)), KapWord)}

\* The index after the chapter word of the chapter reference at i, the word read in
\* its longest form ("kapitel", "kap." or "kap").
ChapterRefEnd(t, i) ==
    LET k == SkipSpaces(t, SkipDigits(t, i))
    IN  IF HasLitCI(t, k, KapitelWord) THEN k + Len(KapitelWord)
        ELSE IF HasLitCI(t, k, KapLit) THEN k + Len(KapLit)
        ELSE k + Len(KapWord)

\* The references "N kap. M §" of a question.
FullRefs(t) ==
    {i \in ChapterRefs(t) :
        /\ HasLit(t, SkipSpaces(t, SkipDigits(t, i)), KapLit)
        /\ LET p == SkipSpaces(t, ChapterRefEnd(t, i))
           IN  /\ DigitsAt(t, p) # << >>
               /\ HasLit(t, SkipSpaces(t, SkipDigits(t, p)), ParLit)}

\* The paragraph number of the reference "N kap. M §" (or "N kapitel M paragraf", ...)
\* at i.
RefParagraph(t, i) == DigitsAt(t, SkipSpaces(t, ChapterRefEnd(t, i)))

\* The paragraph references "M §" or "M paragraf" of a question.
ParagraphRefs(t) == {i \in 1..Len(t) : ParagrafAt(t, i)}

\* The canonical prefixes "N kap. M § " and "N kap. ".
FullPrefix(chapter, paragraph) == chapter \o KapDot \o paragraph \o ParSpace

ChapterPrefix(chapter) == chapter \o KapDot

\* C11 as stated: a question that contains a reference "N kap. M §" goes to the index
\* as "N kap. M § " and the question; a question with paragraph references only and
\* a first-chapter qualifier as "1 kap. M § " and the question; a question with no
\* chapter reference, and with no paragraph reference or no qualifier, unchanged.
RewriteByReference ==
    Rewritten =>
        LET full == FullRefs(query)
            chap == ChapterRefs(query)
            para == ParagraphRefs(query)
        IN  /\ full # {} =>
                   query_text = FullPrefix(DigitsAt(query, Min(full)),
                                           RefParagraph(query, Min(full))) \o query
            /\ (chap = {} /\ para # {} /\ HasFirstChapterWord(query)) =>
                   query_text = FullPrefix(<<"1">>, DigitsAt(query, Min(para))) \o query
            /\ (chap = {} /\ (para = {} \/ ~HasFirstChapterWord(query))) =>
                   query_text = query

\* C11 as amended: the first clause holds for the questions whose first chapter
\* reference is "N kap. M §".
RewriteByFirstReference ==
    Rewritten =>
        LET full == FullRefs(query)
            chap == ChapterRefs(query)
            para == ParagraphRefs(query)
        IN  /\ (chap # {} /\ Min(chap) \in full) =>
                   query_text = FullPrefix(DigitsAt(query, Min(chap)),
                                           RefParagraph(query, Min(chap))) \o query
            /\ (chap = {} /\ para # {} /\ HasFirstChapterWord(query)) =>
                   query_text = FullPrefix(<<"1">>, DigitsAt(query, Min(para))) \o query
            /\ (chap = {} /\ (para = {} \/ ~HasFirstChapterWord(query))) =>
                   query_text = query

\* A question whose first chapter reference is "N kap. M §" and that has a second
\* chapter reference was rewritten.
RewrittenWithTwoReferences ==
    /\ Rewritten
    /\ ChapterRefs(query) # {}
    /\ Min(ChapterRefs(query)) \in FullRefs(query)
    /\ \E i \in ChapterRefs(query) : DigitsAt(query, i) # DigitsAt(query, Min(ChapterRefs(query)))
    /\ query_text # query

\* C20: when the first chapter reference of the question, in any form of the chapter
\* word ("N kap", "N kap.", "N kapitel"), is followed by a paragraph number written
\* "M §" or "M paragraf", the query goes to the index with the prefix "N kap. M § ";
\* the prefix "N kap. " alone is used only when no paragraph number follows.
ChapterParagraphPrefixed ==
    (Rewritten /\ ChapterRefs(query) # {}) =>
        LET i == Min(ChapterRefs(query))
            p == SkipSpaces(query, ChapterRefEnd(query, i))
            given == p <= Len(query) /\ ParagrafAt(query, p)
        IN  /\ given =>
                   query_text = FullPrefix(DigitsAt(query, i), DigitsAt(query, p)) \o query
            /\ query_text = ChapterPrefix(DigitsAt(query, i)) \o query => ~given

(***************************************************************************)
(* The source attribution on answers with citations (specification         *)
(* SpecCite): answers of at most MaxCiteLines lines.                       *)
(***************************************************************************)
MaxCiteLines == 2

CiteLines ==
    {<<"2"," ","k","a","p","."," ","5"," ","§"," ","a",".","t","x","t","\n">>,
     <<"2"," ","k","a","p","."," ","5"," ","§"," ","b",".","t","x","t","\n">>,
     <<"1","2"," ","k","a","p","."," ","5"," ","§"," ","b",".","t","x","t","\n">>,
     <<"1"," ","k","a","p","."," ","1"," ","§"," ","c",".","t","x","t","\n">>,
     <<"S","e"," ","l","a","g","e","n","\n">>}

CiteAnswers == TextsOf(CiteLines, MaxCiteLines)

CiteQuestions == {<<"h","e","j">>}

CiteNext == PipelineStepOn(CiteQuestions, HitLists, CiteAnswers)

SpecCite == Init /\ [][CiteNext]_vars

\* query has returned an answer with sources.
Attributed == qpc = "returned" /\ rag_context.kind = "EnhancedResponse"

\* The text has the marker "c kap. p §" with exactly the chapter number c and the
\* paragraph number p.
ExactMarker(text, chapter, paragraph) ==
    \E i \in 1..Len(text) :
        /\ IsDigit(text[i])
        /\ i = 1 \/ ~IsDigit(text[i - 1])
        /\ DigitsAt(text, i) = chapter
        /\ LET k == SkipSpaces(text, SkipDigits(text, i))
               p == SkipSpaces(text, k + Len(KapLit))
           IN  /\ HasLit(text, k, KapLit)
               /\ DigitsAt(text, p) = paragraph
               /\ HasLit(text, SkipSpaces(text, SkipDigits(text, p)), ParLit)

\* The citations of the answer that the attribution matched with a hit, in order: the
\* k-th of them produced the k-th used source.
AttributedCitations ==
    SelectSeq(Citations(rag_context.text),
              LAMBDA c : FirstCiting(rag_context.source_nodes, c) # 0)

\* C12: for every citation "c kap. p § <filename>" of the answer such that a retrieved
\* chunk has the marker "c kap. p §", a chunk with that marker is among the used
\* sources and its file_name is the file name of the citation.
CitationRoundTrip ==
    Attributed =>
        \A k \in 1..Len(Citations(rag_context.text)) :
            LET c == Citations(rag_context.text)[k]
                nodes == rag_context.source_nodes
            IN  (\E n \in 1..Len(nodes) : ExactMarker(nodes[n].text, c.chapter, c.paragraph))
                    => \E u \in 1..Len(rag_context.used_sources) :
                           LET node == nodes[rag_context.used_sources[u]]
                           IN  /\ ExactMarker(node.text, c.chapter, c.paragraph)
                               /\ node.metadata.file_name = c.filename

\* C13: the chunk attributed to a citation of chapter c, paragraph p has a marker
\* with exactly the chapter number c and the paragraph number p.
AttributedChunkHasMarker ==
    (Attributed /\ AttributedCitations # << >>) =>
        /\ Len(rag_context.used_sources) = Len(AttributedCitations)
        /\ \A k \in 1..Len(AttributedCitations) :
               ExactMarker(rag_context.source_nodes[rag_context.used_sources[k]].text,
                           AttributedCitations[k].chapter,
                           AttributedCitations[k].paragraph)

(***************************************************************************)
(* The lifetime re-ranking (specification SpecRank): hit lists of at most  *)
(* MaxRankHits chunks, two of them with lifetime_info.                     *)
(***************************************************************************)
MaxRankHits == 3

RankCorpus ==
    <<Chunk(<<"S","k","y","d","d","s","t","i","d"," ","t","i","o"," ","å","r">>, <<"a",".","t","x","t">>),
      Chunk(<<"A","v","g","i","f","t","e","r">>, <<"b",".","t","x","t">>),
      Chunk(<<"g","i","l","t","i","g","h","e","t","s","t","i","d">>, <<"a",".","t","x","t">>),
      Chunk(<<"e","n","s","a","m","r","ä","t","t">>, <<"c",".","t","x","t">>)>>

\* The hit lists of at most n distinct chunks of a corpus with scores of a set, the
\* most similar first.
HitListsOf(corpus, n, scores) ==
    LET shapes == UNION {[1..m -> (1..Len(corpus)) \X scores] : m \in 0..Min({n, TopK})}
        ranked(h) ==
            /\ \A a, b \in 1..Len(h) : a # b => h[a][1] # h[b][1]
            /\ \A a, b \in 1..Len(h) :
                   (a < b /\ h[a][2] # NoScore /\ h[b][2] # NoScore) => h[a][2] >= h[b][2]
    IN  {[k \in 1..Len(h) |->
             [id |-> h[k][1], text |-> corpus[h[k][1]].text,
              metadata |-> corpus[h[k][1]].metadata, score |-> h[k][2]]] :
            h \in {g \in shapes : ranked(g)}}

RankQuestions ==
    {<<"h","u","r"," ","m","å","n","g","a"," ","å","r">>,
     <<"h","e","j">>}

RankNext == PipelineStepOn(RankQuestions, HitListsOf(RankCorpus, MaxRankHits, {70, NoScore}),
                           RewriteAnswers)

RankInit == PipelineStart /\ TaggerIdle /\ BatchIdle /\ StoreLoaded(RankCorpus)

SpecRank == RankInit /\ [][RankNext]_vars

\* The question has a lifetime trigger term.
HasTriggerTerm(question) ==
    \E k \in 1..Len(LifetimeTerms) : Contains(LowerText(question), LifetimeTerms[k])

\* perm reorders n hits as a stable partition by flagged: every hit once, the flagged
\* hits first, and the retrieval order kept among the flagged and among the others.
IsStablePartition(perm, hits) ==
    /\ \A a, b \in 1..Len(hits) : a # b => perm[a] # perm[b]
    /\ \A a, b \in 1..Len(hits) :
           a < b =>
               /\ hits[perm[b]].metadata.lifetime_info => hits[perm[a]].metadata.lifetime_info
               /\ (hits[perm[a]].metadata.lifetime_info = hits[perm[b]].metadata.lifetime_info)
                      => perm[a] < perm[b]

\* C14: for a question with a lifetime trigger term the context holds the texts of the
\* hits reordered as a stable partition, those with lifetime_info first; for any other
\* question it holds them in retrieval order.
LifetimePartition ==
    (qpc = "model_check" /\ source_nodes # << >>) =>
        /\ Len(context_texts) = Len(source_nodes)
        /\ IF HasTriggerTerm(query)
           THEN \E perm \in [1..Len(source_nodes) -> 1..Len(source_nodes)] :
                    /\ IsStablePartition(perm, source_nodes)
                    /\ \A k \in 1..Len(source_nodes) :
                           context_texts[k] = source_nodes[perm[k]].text
           ELSE \A k \in 1..Len(source_nodes) : context_texts[k] = source_nodes[k].text

\* A lifetime question retrieved an unflagged hit before two flagged ones, and the
\* context has the flagged ones in front.
LifetimeHitsMovedUp ==
    /\ qpc = "model_check"
    /\ HasTriggerTerm(query)
    /\ Len(source_nodes) = 3
    /\ ~source_nodes[1].metadata.lifetime_info
    /\ source_nodes[2].metadata.lifetime_info
    /\ source_nodes[3].metadata.lifetime_info
    /\ context_texts[1] = source_nodes[2].text

(***************************************************************************)
(* The index: VectorStore.__init__, load_or_create_index, create_index,    *)
(* persist_index and refresh_index.                                        *)
(***************************************************************************)
\* The chunks of the documents: every document of the model is shorter than one
\* chunk, an empty file gives no chunk, and the flags are set from the chunk's text.
RECURSIVE NodesOf(_)
NodesOf(documents) ==
    IF documents = << >> THEN << >>
    ELSE LET d == Head(documents)
         IN  (IF d.text = << >> THEN << >> ELSE <<Chunk(d.text, d.file_name)>>)
                 \o NodesOf(Tail(documents))

RefreshedMessage == "Index refreshed successfully"

\* self.index = None ... self.load_or_create_index()
Construct ==
    /\ ipc = "absent"
    /\ index' = FALSE
    /\ index_nodes' = << >>
    /\ ipc' = "load"
    /\ caller' = "none"
    /\ UNCHANGED <<processed_dir, persisted, outcome, status>>
    /\ UNCHANGED <<api_key, request_vars, requests, tagger_vars, batch_vars>>

\* VECTOR_STORE_DIR is not empty: self.index = load_index_from_storage(...)
LoadIndex ==
    /\ ipc = "load"
    /\ persisted.saved
    /\ index' = TRUE
    /\ index_nodes' = persisted.nodes
    /\ ipc' = "ready"
    /\ UNCHANGED <<processed_dir, persisted, caller, outcome, status>>
    /\ UNCHANGED <<api_key, request_vars, requests, tagger_vars, batch_vars>>

\* Loading raises: except Exception ... self.create_index()
LoadIndexFails ==
    /\ ipc = "load"
    /\ persisted.saved
    /\ ipc' = "create"
    /\ caller' = "handler"
    /\ UNCHANGED <<index, index_nodes, processed_dir, persisted, outcome, status>>
    /\ UNCHANGED <<api_key, request_vars, requests, tagger_vars, batch_vars>>

\* VECTOR_STORE_DIR is empty: self.create_index(), inside the try
NoStoredIndex ==
    /\ ipc = "load"
    /\ ~persisted.saved
    /\ ipc' = "create"
    /\ caller' = "init"
    /\ UNCHANGED <<index, index_nodes, processed_dir, persisted, outcome, status>>
    /\ UNCHANGED <<api_key, request_vars, requests, tagger_vars, batch_vars>>

\* create_index returns to its caller; refresh_index then returns its message.
CreateIndexReturns ==
    /\ ipc' = "ready"
    /\ status' = (IF caller = "refresh" THEN RefreshedMessage ELSE status)
    /\ UNCHANGED caller

\* create_index raises: inside the try of load_or_create_index the handler calls it
\* again, from the handler the constructor raises, and refresh_index raises.
CreateIndexRaises ==
    /\ ipc' = (CASE caller = "init" -> "create"
                 [] caller = "handler" -> "failed"
                 [] OTHER -> "ready")
    /\ caller' = (IF caller = "init" THEN "handler" ELSE caller)
    /\ status' = (IF caller = "refresh" THEN "raised" ELSE status)

\* create_index as it would be if it dropped the handle when it finds no documents.
CreateIndexSkippedResets ==
    /\ ipc = "create"
    /\ processed_dir = << >>
    /\ outcome' = "skipped"
    /\ CreateIndexReturns
    /\ index' = FALSE
    /\ index_nodes' = << >>
    /\ UNCHANGED <<processed_dir, persisted>>
    /\ UNCHANGED <<api_key, request_vars, requests, tagger_vars, batch_vars>>

\* if not os.path.exists(PDF_PROCESSED_DIR) or not os.listdir(PDF_PROCESSED_DIR): return
CreateIndexSkipped ==
    /\ ipc = "create"
    /\ processed_dir = << >>
    /\ outcome' = "skipped"
    /\ CreateIndexReturns
    /\ UNCHANGED <<index, index_nodes, processed_dir, persisted>>
    /\ UNCHANGED <<api_key, request_vars, requests, tagger_vars, batch_vars>>

\* if not documents: return
CreateIndexNoDocuments ==
    /\ ipc = "create"
    /\ processed_dir # << >>
    /\ outcome' = "no_documents"
    /\ CreateIndexReturns
    /\ UNCHANGED <<index, index_nodes, processed_dir, persisted>>
    /\ UNCHANGED <<api_key, request_vars, requests, tagger_vars, batch_vars>>

\* self.index = VectorStoreIndex(nodes); self.persist_index()
CreateIndex ==
    /\ ipc = "create"
    /\ processed_dir # << >>
    /\ index' = TRUE
    /\ index_nodes' = NodesOf(processed_dir)
    /\ persisted' = Saved(NodesOf(processed_dir))
    /\ outcome' = "built"
    /\ CreateIndexReturns
    /\ UNCHANGED processed_dir
    /\ UNCHANGED <<api_key, request_vars, requests, tagger_vars, batch_vars>>

\* create_index as it would be if its except branch dropped the handle.
CreateIndexFailsDropsHandle ==
    /\ ipc = "create"
    /\ processed_dir # << >>
    /\ index' = FALSE
    /\ index_nodes' = << >>
    /\ outcome' = "raised"
    /\ CreateIndexRaises
    /\ UNCHANGED <<processed_dir, persisted>>
    /\ UNCHANGED <<api_key, request_vars, requests, tagger_vars, batch_vars>>

\* An exception inside the try, before self.index is assigned or in persist_index
\* after it: except Exception ... raise
CreateIndexFails ==
    /\ ipc = "create"
    /\ processed_dir # << >>
    /\ \/ UNCHANGED <<index, index_nodes>>
       \/ /\ index' = TRUE
          /\ index_nodes' = NodesOf(processed_dir)
    /\ outcome' = "raised"
    /\ CreateIndexRaises
    /\ UNCHANGED <<processed_dir, persisted>>
    /\ UNCHANGED <<api_key, request_vars, requests, tagger_vars, batch_vars>>

\* refresh_index: self.create_index()
RefreshIndex ==
    /\ ipc = "ready"
    /\ ipc' = "create"
    /\ caller' = "refresh"
    /\ UNCHANGED <<index, index_nodes, processed_dir, persisted, outcome, status>>
    /\ UNCHANGED <<api_key, request_vars, requests, tagger_vars, batch_vars>>

\* The VectorStore is constructed and takes requests, also while a refresh runs.
Serving == ipc = "ready" \/ (ipc = "create" /\ caller = "refresh")

\* The process ends between two requests; the next one constructs its VectorStore
\* anew.
Restart ==
    /\ ipc \in {"ready", "failed"}
    /\ RequestIdle
    /\ ipc' = "absent"
    /\ caller' = "none"
    /\ outcome' = "none"
    /\ status' = "none"
    /\ UNCHANGED <<index, index_nodes, processed_dir, persisted>>
    /\ UNCHANGED <<api_key, request_vars, requests, tagger_vars, batch_vars>>

\* Between two calls a processed document is written to PDF_PROCESSED_DIR.
DocumentWritten(file_name, text) ==
    /\ ipc \in {"absent", "ready"}
    /\ processed_dir' = WithFile(processed_dir, file_name, text)
    /\ UNCHANGED <<index, index_nodes, persisted, ipc, caller, outcome, status>>
    /\ UNCHANGED <<api_key, request_vars, requests, tagger_vars, batch_vars>>

\* Between two calls PDF_PROCESSED_DIR is emptied.
DocumentsRemoved ==
    /\ ipc \in {"absent", "ready"}
    /\ processed_dir # << >>
    /\ processed_dir' = << >>
    /\ UNCHANGED <<index, index_nodes, persisted, ipc, caller, outcome, status>>
    /\ UNCHANGED <<api_key, request_vars, requests, tagger_vars, batch_vars>>

StoreStep ==
    \/ Construct
    \/ LoadIndex
    \/ LoadIndexFails
    \/ NoStoredIndex
    \/ CreateIndexSkipped
    \/ CreateIndexNoDocuments
    \/ CreateIndex
    \/ CreateIndexFails
    \/ RefreshIndex
    \/ Restart

(***************************************************************************)
(* The specification of the index: the VectorStore is constructed, its     *)
(* index refreshed and the process restarted, while processed documents    *)
(* come and go between the calls.                                          *)
(***************************************************************************)
MaxDocuments == 2

DocumentNames ==
    <<<<"a",".","t","x","t">>,
      <<"b",".","t","x","t">>,
      <<"c",".","t","x","t">>,
      <<"d",".","t","x","t">>>>

IndexFiles == {DocumentNames[k] : k \in 1..Min({MaxDocuments, Len(DocumentNames)})}

IndexTexts ==
    {<< >>,
     <<"1"," ","k","a","p","."," ","1"," ","§"," ","E","n","s","a","m","r","ä","t","t">>}

IndexInit ==
    /\ PipelineIdle
    /\ TaggerIdle
    /\ BatchIdle
    /\ processed_dir = << >>
    /\ index_nodes = << >>
    /\ persisted \in {NotSaved,
                      Saved(NodesOf(<<[file_name |-> DocumentNames[1],
                                       text |-> CHOOSE t \in IndexTexts : t # << >>]>>))}
    /\ ipc = "absent"
    /\ caller = "none"
    /\ outcome = "none"
    /\ status = "none"

IndexNext ==
    \/ StoreStep
    \/ \E file_name \in IndexFiles, text \in IndexTexts : DocumentWritten(file_name, text)
    \/ DocumentsRemoved

SpecIndex == IndexInit /\ [][IndexNext]_vars

\* C17: a call of create_index that finds no processed documents does nothing: it
\* returns to its caller without raising, and the index handle, its chunks and the
\* saved index are after the call what they were before it.
BuildOnEmptyIsNoOp ==
    [][(ipc = "create" /\ processed_dir = << >>) =>
          /\ ipc' = "ready"
          /\ outcome' # "raised"
          /\ index' = index
          /\ index_nodes' = index_nodes
          /\ persisted' = persisted]_vars

\* A refresh found the directory emptied and the loaded, saved index is still there.
RefreshedOnEmpty ==
    /\ ipc = "ready"
    /\ caller = "refresh"
    /\ outcome = "skipped"
    /\ processed_dir = << >>
    /\ index
    /\ index_nodes # << >>
    /\ persisted = Saved(index_nodes)

(***************************************************************************)
(* The batch: process_all_text_files.                                      *)
(***************************************************************************)
TxtSuffix == <<".","t","x","t">>

\* f.lower().endswith(".txt")
IsTextFile(file_name) ==
    /\ Len(file_name) >= Len(TxtSuffix)
    /\ SubSeq(LowerText(file_name), Len(file_name) - Len(TxtSuffix) + 1, Len(file_name))
           = TxtSuffix

\* [f for f in os.listdir(self.input_dir) if f.lower().endswith(".txt")]
RECURSIVE TextFilesOf(_)
TextFilesOf(dir) ==
    IF dir = << >> THEN << >>
    ELSE (IF IsTextFile(Head(dir).file_name) THEN <<Head(dir).file_name>> ELSE << >>)
             \o TextFilesOf(Tail(dir))

\* The text of the file file_name of the directory dir.
TextOf(dir, file_name) ==
    dir[CHOOSE k \in 1..Len(dir) : dir[k].file_name = file_name].text

\* if not text_files: return []
NoTextFiles ==
    /\ bpc = "idle"
    /\ TextFilesOf(input_dir) = << >>
    /\ text_files' = << >>
    /\ processed_files' = << >>
    /\ batch_pos' = 0
    /\ bpc' = "returned"
    /\ UNCHANGED <<input_dir, file_path>>
    /\ UNCHANGED <<tagger_vars, pipeline_vars, store_vars>>

\* processed_files = []; text_files = [...]
StartBatch ==
    /\ bpc = "idle"
    /\ TextFilesOf(input_dir) # << >>
    /\ text_files' = TextFilesOf(input_dir)
    /\ processed_files' = << >>
    /\ batch_pos' = 0
    /\ bpc' = "loop"
    /\ UNCHANGED <<input_dir, file_path>>
    /\ UNCHANGED <<tagger_vars, pipeline_vars, store_vars>>

\* for text_file in text_files: result = self.preprocess_legal_text(input_path)
NextFile ==
    /\ bpc = "loop"
    /\ batch_pos < Len(text_files)
    /\ batch_pos' = batch_pos + 1
    /\ file_path' = text_files[batch_pos + 1]
    /\ content' = TextOf(input_dir, text_files[batch_pos + 1])
    /\ enhanced_content' = << >>
    /\ tpc' = "read"
    /\ paragraph_tags' = << >>
    /\ explicit_tags' = << >>
    /\ prepended' = << >>
    /\ applications' = 0
    /\ bpc' = "call"
    /\ UNCHANGED <<input_dir, text_files, processed_files>>
    /\ UNCHANGED <<pipeline_vars, store_vars>>

\* return output_path ... if result: processed_files.append(result)
FileProcessed ==
    /\ bpc = "call"
    /\ tpc = "written"
    /\ processed_files' = Append(processed_files, file_path)
    /\ bpc' = "loop"
    /\ UNCHANGED <<input_dir, text_files, batch_pos, file_path>>
    /\ UNCHANGED <<tagger_vars, pipeline_vars, store_vars>>

\* The loop as it would be if a document's failure ended the batch.
FileSkippedAborts ==
    /\ bpc = "call"
    /\ tpc = "failed"
    /\ bpc' = "returned"
    /\ UNCHANGED <<input_dir, text_files, batch_pos, file_path, processed_files>>
    /\ UNCHANGED <<tagger_vars, pipeline_vars, store_vars>>

\* return None ... if result: is false and the loop goes on
FileSkipped ==
    /\ bpc = "call"
    /\ tpc = "failed"
    /\ bpc' = "loop"
    /\ UNCHANGED <<input_dir, text_files, batch_pos, file_path, processed_files>>
    /\ UNCHANGED <<tagger_vars, pipeline_vars, store_vars>>

\* return processed_files
BatchReturns ==
    /\ bpc = "loop"
    /\ batch_pos = Len(text_files)
    /\ bpc' = "returned"
    /\ UNCHANGED <<input_dir, text_files, batch_pos, file_path, processed_files>>
    /\ UNCHANGED <<tagger_vars, pipeline_vars, store_vars>>

BatchStep ==
    \/ NoTextFiles
    \/ StartBatch
    \/ NextFile
    \/ FileProcessed
    \/ FileSkipped
    \/ BatchReturns

(***************************************************************************)
(* The specification of the batch: the input directory holds up to         *)
(* MaxBatchFiles files, and reading or writing any of them may fail.       *)
(***************************************************************************)
MaxBatchFiles == 2

BatchNames ==
    {<<"a",".","t","x","t">>,
     <<"B",".","T","X","T">>,
     <<"c",".","p","d","f">>}

BatchTexts ==
    {<<"1"," ","k","a","p","."," ","1"," ","§"," ","a">>,
     <<"2"," ","§">>}

BatchDirs ==
    {d \in UNION {[1..n -> [file_name : BatchNames, text : BatchTexts]] :
                     n \in 0..MaxBatchFiles} :
        \A a, b \in 1..Len(d) : a # b => d[a].file_name # d[b].file_name}

BatchInit ==
    /\ PipelineIdle
    /\ TaggerIdle
    /\ StoreAbsent
    /\ input_dir \in BatchDirs
    /\ text_files = << >>
    /\ batch_pos = 0
    /\ file_path = << >>
    /\ processed_files = << >>
    /\ bpc = "idle"

BatchNext == BatchStep \/ TaggerStep

SpecBatch == BatchInit /\ [][BatchNext]_vars

\* The file file_name of the output directory holds a text.
HasOutput(file_name) ==
    \E k \in 1..Len(processed_dir) :
        processed_dir[k].file_name = file_name /\ processed_dir[k].text # << >>

\* The positions of the text files whose output was written.
Succeeded == {k \in 1..Len(text_files) : HasOutput(text_files[k])}

\* C16: when the batch returns, every text file of the input directory was given
\* to the tagger, and the result lists, in the order of the listing and each once,
\* exactly the files whose output was written: a file whose tagging failed is not
\* listed, and its failure keeps no other file out of the result.
BatchListsSuccesses ==
    bpc = "returned" =>
        /\ text_files = TextFilesOf(input_dir)
        /\ batch_pos = Len(text_files)
        /\ Len(processed_files) = Cardinality(Succeeded)
        /\ \A i \in 1..Len(processed_files) :
               \E k \in Succeeded :
                   /\ processed_files[i] = text_files[k]
                   /\ Cardinality({j \in Succeeded : j < k}) = i - 1

\* The first file of the batch failed and the second one is the result.
FailureThenSuccess ==
    /\ bpc = "returned"
    /\ Len(text_files) = 2
    /\ ~HasOutput(text_files[1])
    /\ processed_files = <<text_files[2]>>

(***************************************************************************)
(* The specification of the whole path: one document is tagged and written *)
(* to the processed directory, the VectorStore is constructed or refreshed *)
(* and questions are answered from the index it built.                     *)
(***************************************************************************)
HeaderDocument ==
    <<"1"," ","k","a","p","."," ","I","n","l","e","d","a","n","d","e"," ","b","e","s","t","ä",
      "m","m","e","l","s","e","r","\n","1"," ","§"," ","D","e","n"," ","s","o","m"," ","v","i",
      "l","l">>

EndToEndDocuments ==
    {HeaderDocument,
     <<"1"," ","k","a","p","."," ","1"," ","§"," ","D","e","n"," ","s","o","m"," ","v","i","l",
      "l">>}

EndToEndQuestion ==
    <<"v","a","d"," ","ä","r"," ","1"," ","k","a","p","."," ","1"," ","§">>

EndToEndAnswers ==
    {<<"E","n","l","i","g","t"," ","1"," ","k","a","p","."," ","1"," ","§"," ","l","a","g",".",
      "t","x","t">>,
     <<"I","n","g","e","t"," ","s","v","a","r"," ","i"," ","t","e","x","t","e","n">>}

EndToEndInit ==
    /\ api_key \in BOOLEAN
    /\ index = FALSE
    /\ RequestIdle
    /\ requests = 0
    /\ content \in EndToEndDocuments
    /\ enhanced_content = << >>
    /\ tpc = "read"
    /\ paragraph_tags = << >>
    /\ explicit_tags = << >>
    /\ prepended = << >>
    /\ applications = 0
    /\ SingleFile(TaggerFile)
    /\ StoreAbsent

EndToEndNext ==
    \/ TaggerStep
    \/ StoreStep
    \/ PipelineStepOn(IF Serving THEN {EndToEndQuestion} ELSE {},
                      HitListsOf(index_nodes, MaxHits, Scores \cup {NoScore}),
                      EndToEndAnswers)

SpecEndToEnd == EndToEndInit /\ [][EndToEndNext]_vars

\* The index holds the chunks of the tagged document and the question was answered
\* from the hits retrieved from it.
AnsweredFromTaggedDocument ==
    /\ tpc = "written"
    /\ processed_dir = <<[file_name |-> file_path, text |-> enhanced_content]>>
    /\ index
    /\ index_nodes = NodesOf(processed_dir)
    /\ Attributed
    /\ query = EndToEndQuestion
    /\ rag_context.source_nodes # << >>

\* C15: for the document with the chapter header "1 kap. Inledande bestämmelser"
\* followed by "1 § Den som...", tagged, chunked and indexed, the answer to
\* "vad är 1 kap. 1 §" has a retrieved chunk whose metadata has important = TRUE
\* and its source list is not empty.
HeaderDocumentImportantSource ==
    (content = HeaderDocument /\ AnsweredFromTaggedDocument) =>
        /\ \E k \in 1..Len(rag_context.source_nodes) :
               rag_context.source_nodes[k].metadata.important
        /\ rag_context.used_sources # << >>

(***************************************************************************)
(* Properties of the source attribution (specification Spec).              *)
(***************************************************************************)
\* The hits of the answer that a citation of its text was attributed to.
CitedHits ==
    {k \in 1..Len(rag_context.source_nodes) :
        \E i \in 1..Len(Citations(rag_context.text)) :
            FirstCiting(rag_context.source_nodes, Citations(rag_context.text)[i]) = k}

\* The hits of the answer with a score above 0.5, in retrieval order.
HitsAboveThreshold ==
    SelectSeq([k \in 1..Len(rag_context.source_nodes) |-> k],
              LAMBDA k : rag_context.source_nodes[k].score > ScoreThreshold)

\* C21: when no citation of the answer is attributed to a hit and there are hits,
\* the used sources are exactly the hits with a score above 0.5, in retrieval order;
\* when a citation is attributed, every used source is a hit a citation was
\* attributed to.
ThresholdOnlyWithoutCitations ==
    Attributed =>
        /\ (CitedHits = {} /\ rag_context.source_nodes # << >>) =>
               rag_context.used_sources = HitsAboveThreshold
        /\ CitedHits # {} =>
               \A i \in 1..Len(rag_context.used_sources) :
                   rag_context.used_sources[i] \in CitedHits

\* No citation was attributed and one of two hits passed the threshold.
ThresholdKeptOneOfTwo ==
    /\ Attributed
    /\ CitedHits = {}
    /\ Len(rag_context.source_nodes) = 2
    /\ Len(rag_context.used_sources) = 1

(***************************************************************************)
(* Properties of the chapter marking (specification SpecTagger).           *)
(***************************************************************************)
\* The section break of step 1 for a chapter number, with its blank line.
SectionBreak(chapter) ==
    <<"\n", "\n", "-", "-", "-", " ", "K", "A", "P", "I", "T", "E", "L", " ">>
        \o chapter \o <<" ", "-", "-", "-", "\n">>

\* The places of the text t where lit stands.
Occurrences(t, lit) == {i \in 1..Len(t) : HasLit(t, i, lit)}

\* The chapter markers "N kap." of the text t with the chapter number chapter.
MarkersOf(t, chapter) == {i \in ChapterStarts(t) : DigitsAt(t, i) = chapter}

\* C22: in the text written, every chapter marker "N kap." of the text read has a
\* section break "--- KAPITEL N ---" with a blank line before it: for every chapter
\* number there are at least as many section breaks as the input has markers, also
\* when a chapter marker follows another one with no paragraph marker between them.
ChapterMarkersHaveBreaks ==
    tpc = "written" =>
        \A i \in ChapterStarts(content) :
            Cardinality(Occurrences(enhanced_content, SectionBreak(DigitsAt(content, i))))
                >= Cardinality(MarkersOf(content, DigitsAt(content, i)))

(***************************************************************************)
(* The specification of the excerpts: the index holds chunks whose texts   *)
(* are shorter than, as long as and longer than an excerpt.                *)
(***************************************************************************)
MaxExcerptHits == 1

\* A text of n characters.
Filler(n) == [i \in 1..n |-> "a"]

ExcerptCorpus ==
    <<Chunk(<<"A","v","g","i","f","t","e","r">>, <<"a",".","t","x","t">>),
      Chunk(Filler(ExcerptLen), <<"b",".","t","x","t">>),
      Chunk(Filler(ExcerptLen + 1), <<"c",".","t","x","t">>)>>

ExcerptInit == PipelineStart /\ TaggerIdle /\ BatchIdle /\ StoreLoaded(ExcerptCorpus)

ExcerptNext ==
    PipelineStepOn(CiteQuestions, HitListsOf(ExcerptCorpus, MaxExcerptHits, {70, NoScore}),
                   RewriteAnswers)

SpecExcerpt == ExcerptInit /\ [][ExcerptNext]_vars

\* The lines of a text.
RECURSIVE SplitLines(_)
SplitLines(t) ==
    LET ends == {i \in 1..Len(t) : t[i] = "\n"}
    IN  IF ends = {}
        THEN <<t>>
        ELSE <<SubSeq(t, 1, Min(ends) - 1)>> \o SplitLines(SubSeq(t, Min(ends) + 1, Len(t)))

ExcerptOpen == <<" "," "," "," ","U","t","d","r","a","g",":"," ","\"">>

Ellipsis == <<".",".",".">>

\* The response lists its used sources.
SourcesShown ==
    /\ gpc = "done"
    /\ "sources" \in DOMAIN response
    /\ rag_context.kind = "EnhancedResponse"
    /\ rag_context.used_sources # << >>

\* The excerpt shown for the k-th used source: what stands between the quotes of
\* the second line of the source.
ShownExcerpt(k) ==
    LET line == SplitLines(response.sources)[2 * k]
    IN  SubSeq(line, Len(ExcerptOpen) + 1, Len(line) - 1)

\* The text of the k-th used source.
UsedText(k) == rag_context.source_nodes[rag_context.used_sources[k]].text

EndsWithEllipsis(t) ==
    Len(t) >= Len(Ellipsis) /\ SubSeq(t, Len(t) - Len(Ellipsis) + 1, Len(t)) = Ellipsis

\* C23 as stated: the excerpt shown for a used source has at most 150 characters; it
\* is the whole text when the text has at most 150 characters, and otherwise it is
\* cut from the text and ends with an ellipsis.
ExcerptAtMostLimit ==
    SourcesShown =>
        \A k \in 1..Len(rag_context.used_sources) :
            /\ Len(ShownExcerpt(k)) <= ExcerptLen
            /\ Len(UsedText(k)) <= ExcerptLen => ShownExcerpt(k) = UsedText(k)
            /\ Len(UsedText(k)) > ExcerptLen => EndsWithEllipsis(ShownExcerpt(k))

\* C23 as amended: the excerpt shown for a used source is the whole text when the
\* text has at most 150 characters, and otherwise the first 150 characters of the
\* text followed by an ellipsis, 153 characters in all; nothing is appended to a
\* text that was not cut.
ExcerptIsLimitPlusEllipsis ==
    SourcesShown =>
        \A k \in 1..Len(rag_context.used_sources) :
            /\ Len(UsedText(k)) <= ExcerptLen => ShownExcerpt(k) = UsedText(k)
            /\ Len(UsedText(k)) > ExcerptLen =>
                   /\ ShownExcerpt(k) = SubSeq(UsedText(k), 1, ExcerptLen) \o Ellipsis
                   /\ Len(ShownExcerpt(k)) = ExcerptLen + Len(Ellipsis)

\* A used source whose text is longer than an excerpt is shown.
LongSourceShown ==
    /\ SourcesShown
    /\ Len(UsedText(1)) > ExcerptLen

(***************************************************************************)
(* The specification of the metadata flags: one processed document is      *)
(* written with different texts and the index is built from it.            *)
(***************************************************************************)
MaxFlagItems == 2

FlagItems ==
    {<<"1","1"," ","k","a","p","."," ","1"," ","§"," ">>,
     <<"1"," ","k","a","p","."," ","1"," ","§"," ">>,
     <<"5"," ","k","a","p","."," ","2"," ","§"," ">>,
     <<"E","n","s","a","m","r","ä","t","t"," ">>,
     <<"p","a","t","e","n","t"," ">>,
     <<"t","i","o"," ","å","r"," ">>,
     <<"o","r","d"," ">>}

FlagTexts == TextsOf(FlagItems, MaxFlagItems)

FlagsInit == PipelineIdle /\ TaggerIdle /\ BatchIdle /\ StoreAbsent

FlagsNext ==
    \/ Construct
    \/ NoStoredIndex
    \/ CreateIndexSkipped
    \/ CreateIndex
    \/ RefreshIndex
    \/ \E text \in FlagTexts : DocumentWritten(TaggerFile, text)

SpecFlags == FlagsInit /\ [][FlagsNext]_vars

\* The text has one of the canonical anchors, "1 kap. 1 §" or "5 kap. 2 §".
HasCanonicalAnchor(text) ==
    ExactMarker(text, <<"1">>, <<"1">>) \/ ExactMarker(text, <<"5">>, <<"2">>)

\* C24: every chunk of the index has each flag set exactly when the detector of the
\* flag matches the text of the chunk, and important is set exactly when the text of
\* the chunk has one of the canonical chapter and paragraph anchors.
FlagsFollowDetectors ==
    \A k \in 1..Len(index_nodes) :
        LET node == index_nodes[k]
        IN  /\ node.metadata.lifetime_info <=> lifetime_info(node.text)
            /\ node.metadata.patent_info <=> patent_info(node.text)
            /\ node.metadata.has_section <=> has_section(node.text)
            /\ node.metadata.important <=> HasCanonicalAnchor(node.text)

(***************************************************************************)
(* The specification of a refresh among queries: the background task of    *)
(* /refresh runs create_index step by step with the requests, while        *)
(* processed documents come and go.                                        *)
(***************************************************************************)
RefreshCorpus ==
    <<Chunk(<<"2"," ","k","a","p","."," ","5"," ","§"," ","S","k","y","d","d","s","t","i","d"," ","t",
      "i","o"," ","å","r">>,
            <<"a",".","t","x","t">>)>>

RefreshText ==
    <<"1"," ","k","a","p","."," ","1"," ","§"," ","E","n","s","a","m","r","ä","t","t">>

RefreshInit == PipelineStart /\ TaggerIdle /\ BatchIdle /\ StoreLoaded(RefreshCorpus)

RefreshNext ==
    \/ PipelineStepOn(IF Serving THEN CiteQuestions ELSE {},
                      HitListsOf(index_nodes, MaxHits, Scores \cup {NoScore}),
                      RewriteAnswers)
    \/ RefreshIndex
    \/ CreateIndexSkipped
    \/ CreateIndexNoDocuments
    \/ CreateIndex
    \/ CreateIndexFails
    \/ DocumentWritten(TaggerFile, RefreshText)
    \/ DocumentsRemoved

SpecRefresh == RefreshInit /\ [][RefreshNext]_vars

\* The hits are chunks of the index with the chunks nodes.
RetrievedFrom(hits, nodes) ==
    \A k \in 1..Len(hits) :
        \E j \in 1..Len(nodes) :
            hits[k].text = nodes[j].text /\ hits[k].metadata = nodes[j].metadata

\* C25: while a refresh runs among the queries, a loaded index handle is never
\* dropped, the chunks behind the handle change only all at once to the chunks built
\* from the processed documents, a query that passed the index check still finds the
\* handle when it retrieves, and its hits are chunks of the one index the handle
\* holds at that moment.
HandleReplacedWhole ==
    [][/\ index => index'
       /\ index_nodes' # index_nodes => (index' /\ index_nodes' = NodesOf(processed_dir))
       /\ qpc' = "retrieve" => index'
       /\ (qpc = "retrieve" /\ qpc' = "model_check") =>
              (index /\ RetrievedFrom(source_nodes', index_nodes))]_vars

\* A query passed the index check and a refresh is under way.
RefreshDuringQuery ==
    /\ qpc = "retrieve"
    /\ ipc = "create"
    /\ caller = "refresh"
    /\ processed_dir # << >>
    /\ index_nodes = RefreshCorpus

(***************************************************************************)
(* The specification of attribution after re-ranking: lifetime questions   *)
(* over chunks that carry the same chapter and paragraph marker, with and  *)
(* without lifetime words.                                                 *)
(***************************************************************************)
OrderCorpus ==
    <<Chunk(<<"2"," ","k","a","p","."," ","5"," ","§"," ","A","v","g","i","f","t","e","r">>, <<"a",".","t","x","t">>),
      Chunk(<<"2"," ","k","a","p","."," ","5"," ","§"," ","S","k","y","d","d","s","t","i","d"," ","t",
      "i","o"," ","å","r">>, <<"b",".","t","x","t">>),
      Chunk(<<"g","i","l","t","i","g","h","e","t","s","t","i","d">>, <<"c",".","t","x","t">>)>>

OrderAnswers ==
    {<<"E","n","l","i","g","t"," ","2"," ","k","a","p","."," ","5"," ","§"," ","l","a","g",".",
      "t","x","t">>,
     <<"I","n","g","e","t"," ","s","v","a","r"," ","i"," ","t","e","x","t","e","n">>}

OrderInit == PipelineStart /\ TaggerIdle /\ BatchIdle /\ StoreLoaded(OrderCorpus)

OrderNext ==
    PipelineStepOn(RankQuestions, HitListsOf(OrderCorpus, MaxHits, Scores \cup {NoScore}),
                   OrderAnswers)

SpecOrder == OrderInit /\ [][OrderNext]_vars

\* The hits are in the order of the retriever: no hit has a higher score than a hit
\* before it.
InRetrievalOrder(hits) ==
    \A a, b \in 1..Len(hits) :
        (a < b /\ hits[a].score # NoScore /\ hits[b].score # NoScore) =>
            hits[a].score >= hits[b].score

\* C26: the source nodes of the answer are in retrieval order, also for a lifetime
\* question whose context was reordered, and the chunk attributed to a citation is
\* the first chunk in that order whose text matches the citation.
AttributionInRetrievalOrder ==
    Attributed =>
        /\ InRetrievalOrder(rag_context.source_nodes)
        /\ CitedHits # {} =>
               /\ Len(rag_context.used_sources) = Len(AttributedCitations)
               /\ \A k \in 1..Len(AttributedCitations) :
                      LET n == rag_context.used_sources[k]
                          c == AttributedCitations[k]
                      IN  /\ NodeCites(rag_context.source_nodes[n].text, c.chapter,
                                       c.paragraph)
                          /\ \A m \in 1..(n - 1) :
                                 ~NodeCites(rag_context.source_nodes[m].text, c.chapter,
                                            c.paragraph)

\* A lifetime question moved the second hit to the front of the context, both hits
\* match the citation, and the citation was attributed to the first hit.
AttributedAfterReorder ==
    /\ Attributed
    /\ HasTriggerTerm(query)
    /\ Len(rag_context.source_nodes) = 2
    /\ context_texts[1] = rag_context.source_nodes[2].text
    /\ context_texts[1] # rag_context.source_nodes[1].text
    /\ \A n \in 1..2 : NodeCites(rag_context.source_nodes[n].text, <<"2">>, <<"5">>)
    /\ rag_context.used_sources = <<1>>

(***************************************************************************)
(* Properties of the used-source list (specification SpecCite).            *)
(***************************************************************************)
\* C27: the used-source list of an answer holds each retrieved chunk at most once,
\* also when the answer cites the same chapter and paragraph several times.
UsedSourcesDistinct ==
    Attributed =>
        \A a, b \in 1..Len(rag_context.used_sources) :
            rag_context.used_sources[a] = rag_context.used_sources[b] => a = b

(***************************************************************************)
(* The specification of the displayed location: chunks that hold one or   *)
(* two chapter and paragraph markers, and answers citing either pair.      *)
(***************************************************************************)
LocationCorpus ==
    <<Chunk(<<"1"," ","k","a","p","."," ","1"," ","§"," ","E","n","s","a","m","r","ä","t","t"," ","2"," ","k","a","p","."," ","5"," ","§"," ","A","v","g","i","f","t","e","r">>, <<"a",".","t","x","t">>),
      Chunk(<<"3"," ","k","a","p","."," ","2"," ","§"," ","S","k","y","d","d","s","t","i","d">>, <<"b",".","t","x","t">>)>>

LocationAnswers ==
    {<<"E","n","l","i","g","t"," ","2"," ","k","a","p","."," ","5"," ","§"," ","l","a","g",".","t","x","t">>,
     <<"E","n","l","i","g","t"," ","1"," ","k","a","p","."," ","1"," ","§"," ","l","a","g",".","t","x","t">>,
     <<"I","n","g","e","t"," ","s","v","a","r"," ","i"," ","t","e","x","t","e","n">>}

LocationInit == PipelineStart /\ TaggerIdle /\ BatchIdle /\ StoreLoaded(LocationCorpus)

LocationNext ==
    PipelineStepOn(CiteQuestions, HitListsOf(LocationCorpus, MaxHits, Scores \cup {NoScore}),
                   LocationAnswers)

SpecLocation == LocationInit /\ [][LocationNext]_vars

\* The location of a formatted source line for chapter c, paragraph p.
LocationOf(chapter, paragraph) ==
    <<" ","(","k","a","p","i","t","e","l"," ">> \o chapter \o <<","," ","§"," ">>
        \o paragraph \o <<")">>

\* C28: the formatted line of a source attributed through a citation of chapter c,
\* paragraph p shows the location (kapitel c, § p).
ShownLocationIsCited ==
    (SourcesShown /\ CitedHits # {}) =>
        \A k \in 1..Len(AttributedCitations) :
            Contains(SplitLines(response.sources)[2 * k - 1],
                     LocationOf(AttributedCitations[k].chapter,
                                AttributedCitations[k].paragraph))

(***************************************************************************)
(* Properties of the returned answer text (specification Spec).            *)
(***************************************************************************)
\* The calls of the request that ask a model for text.
SynthesisCalls ==
    SelectSeq(calls, LAMBDA c : c.op \in {"generate_content", "send_message"})

\* C29: the answer text get_response returns with sources is the synthesized text
\* the citations of those sources were parsed from, and the request made one
\* synthesis call.
AnswerIsAttributedText ==
    (gpc = "done" /\ "sources" \in DOMAIN response /\ rag_context.kind = "EnhancedResponse") =>
        /\ response.answer = rag_context.text
        /\ Len(SynthesisCalls) = 1

(***************************************************************************)
(* Properties of the refresh status (specification SpecIndex).             *)
(***************************************************************************)
\* C30: refresh_index returns "Index refreshed successfully" only when its build
\* made a new index of the processed documents and installed it; no success message
\* after a skipped build.
RefreshedOnlyWhenBuilt ==
    (ipc = "ready" /\ caller = "refresh" /\ status = RefreshedMessage) =>
        (outcome = "built" /\ index)

====
